---- MODULE Spec2Model ----
(***************************************************************************)
(* Workspace storage engine of NovaMD (backend/internal/filesystem):       *)
(* path sandboxing, directory listing and file CRUD over a host            *)
(* filesystem.  Strings are sequences of one-character strings, so that    *)
(* prefix tests, joins and normalisation act on characters as in Go.       *)
(***************************************************************************)
EXTENDS Integers, Sequences, FiniteSets, TLC

VARIABLES fsys, result, GitRepos, commits, calls

vars == <<fsys, result, GitRepos, commits, calls>>

-----------------------------------------------------------------------------
(* Characters and strings *)

Sep == "/"

\* byte value of the characters that occur in the model
Ord(c) ==
    CASE c = "." -> 46 [] c = "/" -> 47
      [] c = "0" -> 48 [] c = "1" -> 49 [] c = "2" -> 50 [] c = "3" -> 51
      [] c = "4" -> 52 [] c = "5" -> 53 [] c = "6" -> 54 [] c = "7" -> 55
      [] c = "8" -> 56 [] c = "9" -> 57
      [] c = "A" -> 65 [] c = "B" -> 66
      [] c = "a" -> 97 [] c = "b" -> 98 [] c = "d" -> 100 [] c = "g" -> 103
      [] c = "i" -> 105 [] c = "t" -> 116

\* strings.ToLower on one ASCII character
ToLowerChar(c) ==
    CASE c = "A" -> "a" [] c = "B" -> "b" [] OTHER -> c

\* strings.ToLower
ToLower(s) == [i \in 1..Len(s) |-> ToLowerChar(s[i])]

\* Go's < on strings: bytewise lexicographic order
RECURSIVE StrLess(_, _)
StrLess(s, t) ==
    IF t = <<>> THEN FALSE
    ELSE IF s = <<>> THEN TRUE
    ELSE IF Ord(Head(s)) < Ord(Head(t)) THEN TRUE
    ELSE IF Ord(Head(s)) > Ord(Head(t)) THEN FALSE
    ELSE StrLess(Tail(s), Tail(t))

\* strings.HasPrefix
HasPrefix(s, prefix) ==
    /\ Len(s) >= Len(prefix)
    /\ SubSeq(s, 1, Len(prefix)) = prefix

DigitChar(n) ==
    CASE n = 0 -> "0" [] n = 1 -> "1" [] n = 2 -> "2" [] n = 3 -> "3"
      [] n = 4 -> "4" [] n = 5 -> "5" [] n = 6 -> "6" [] n = 7 -> "7"
      [] n = 8 -> "8" [] n = 9 -> "9"

\* fmt.Sprintf("%d", n) for n >= 0
RECURSIVE Itoa(_)
Itoa(n) ==
    IF n < 10 THEN <<DigitChar(n)>>
    ELSE Append(Itoa(n \div 10), DigitChar(n % 10))

\* strings.Split(s, "/")
RECURSIVE SplitPath(_)
SplitPath(s) ==
    IF s = <<>> THEN << <<>> >>
    ELSE LET r == SplitPath(SubSeq(s, 1, Len(s) - 1))
             c == s[Len(s)]
         IN  IF c = Sep THEN Append(r, <<>>)
             ELSE [r EXCEPT ![Len(r)] = Append(@, c)]

\* strings.Join(segs, "/")
RECURSIVE JoinSep(_)
JoinSep(segs) ==
    IF segs = <<>> THEN <<>>
    ELSE IF Len(segs) = 1 THEN segs[1]
    ELSE segs[1] \o <<Sep>> \o JoinSep(Tail(segs))

Dot == <<".">>
DotDot == <<".", ".">>

\* the element stack filepath.Clean builds while scanning the elements
RECURSIVE CleanSegs(_, _, _)
CleanSegs(segs, out, rooted) ==
    IF segs = <<>> THEN out
    ELSE LET e == Head(segs)
             rest == Tail(segs)
         IN  IF e = <<>> \/ e = Dot THEN CleanSegs(rest, out, rooted)
             ELSE IF e = DotDot
                  THEN IF out # <<>> /\ out[Len(out)] # DotDot
                       THEN CleanSegs(rest, SubSeq(out, 1, Len(out) - 1), rooted)
                       ELSE IF ~rooted
                            THEN CleanSegs(rest, Append(out, DotDot), rooted)
                            ELSE CleanSegs(rest, out, rooted)
                  ELSE CleanSegs(rest, Append(out, e), rooted)

\* filepath.Clean (Unix)
Clean(path) ==
    IF path = <<>> THEN Dot
    ELSE LET rooted == path[1] = Sep
             out == JoinSep(CleanSegs(SplitPath(path), <<>>, rooted))
         IN  IF rooted THEN <<Sep>> \o out
             ELSE IF out = <<>> THEN Dot ELSE out

\* filepath.Join: the elements from the first non-empty one on, joined and cleaned
RECURSIVE Join(_)
Join(elems) ==
    IF elems = <<>> THEN <<>>
    ELSE IF Head(elems) = <<>> THEN Join(Tail(elems))
    ELSE Clean(JoinSep(elems))

\* index of the last separator of path, 0 when there is none
RECURSIVE LastSep(_)
LastSep(path) ==
    IF path = <<>> THEN 0
    ELSE IF path[Len(path)] = Sep THEN Len(path)
    ELSE LastSep(SubSeq(path, 1, Len(path) - 1))

\* filepath.Dir
Dir(path) == Clean(SubSeq(path, 1, LastSep(path)))

\* filepath.Base of a cleaned path: the name of a directory entry
Base(path) == SubSeq(path, LastSep(path) + 1, Len(path))

-----------------------------------------------------------------------------
(* The host filesystem: a map from cleaned absolute paths to entries.      *)

Nil == "nil"
ENOENT == "no such file or directory"
ENOTDIR == "not a directory"
EISDIR == "is a directory"
ENOTEMPTY == "directory not empty"
EACCES == "permission denied"
ErrOutside == "invalid path: outside of workspace"

Slash == <<Sep>>

DirEntry == [isDir |-> TRUE, data |-> <<>>]
FileEntry(content) == [isDir |-> FALSE, data |-> content]

\* q lies strictly below directory d (separator-aware)
IsUnder(q, d) ==
    IF d = Slash THEN q # Slash /\ HasPrefix(q, Slash)
    ELSE HasPrefix(q, d \o Slash) /\ Len(q) > Len(d) + 1

\* the error of resolving path when nothing exists at it
RECURSIVE LookupErr(_, _)
LookupErr(fs, path) ==
    IF path \in DOMAIN fs THEN Nil
    ELSE LET pe == LookupErr(fs, Dir(path))
         IN  IF pe # Nil THEN pe
             ELSE IF fs[Dir(path)].isDir THEN ENOENT ELSE ENOTDIR

\* os.MkdirAll
RECURSIVE MkdirAll(_, _)
MkdirAll(fs, path) ==
    IF path \in DOMAIN fs
    THEN [fs |-> fs, err |-> IF fs[path].isDir THEN Nil ELSE ENOTDIR]
    ELSE LET up == MkdirAll(fs, Dir(path))
         IN  IF up.err # Nil THEN up
             ELSE [fs |-> (path :> DirEntry) @@ up.fs, err |-> Nil]

\* os.WriteFile: open with O_WRONLY|O_CREATE|O_TRUNC, write, close
WriteFile(fs, path, content) ==
    IF path \in DOMAIN fs
    THEN IF fs[path].isDir THEN [fs |-> fs, err |-> EISDIR]
         ELSE [fs |-> [fs EXCEPT ![path] = FileEntry(content)], err |-> Nil]
    ELSE IF Dir(path) \in DOMAIN fs /\ fs[Dir(path)].isDir
         THEN [fs |-> (path :> FileEntry(content)) @@ fs, err |-> Nil]
         ELSE [fs |-> fs, err |-> LookupErr(fs, path)]

\* os.ReadFile
ReadFile(fs, path) ==
    IF path \in DOMAIN fs
    THEN IF fs[path].isDir THEN [data |-> <<>>, err |-> EISDIR]
         ELSE [data |-> fs[path].data, err |-> Nil]
    ELSE [data |-> <<>>, err |-> LookupErr(fs, path)]

\* the paths of the entries directly in directory dir
ChildrenOf(fs, dir) == {q \in DOMAIN fs : q # dir /\ Dir(q) = dir}

\* a removal that, like os.RemoveAll, reports no error for an absent path
RemoveForce(fs, path) ==
    IF path \notin DOMAIN fs THEN [fs |-> fs, err |-> Nil]
    ELSE IF fs[path].isDir /\ ChildrenOf(fs, path) # {}
         THEN [fs |-> fs, err |-> ENOTEMPTY]
         ELSE [fs |-> [q \in DOMAIN fs \ {path} |-> fs[q]], err |-> Nil]

\* os.Remove: unlink a file or remove an empty directory
Remove(fs, path) ==
    IF path \notin DOMAIN fs THEN [fs |-> fs, err |-> LookupErr(fs, path)]
    ELSE IF fs[path].isDir /\ ChildrenOf(fs, path) # {}
         THEN [fs |-> fs, err |-> ENOTEMPTY]
         ELSE [fs |-> [q \in DOMAIN fs \ {path} |-> fs[q]], err |-> Nil]

\* os.RemoveAll: path and everything below it; no error when path is absent
RemoveAll(fs, path) ==
    [fs |-> [q \in {x \in DOMAIN fs : x # path /\ ~IsUnder(x, path)} |-> fs[q]],
     err |-> Nil]

\* a set of names as the sequence sorted by filename
RECURSIVE SortedNames(_)
SortedNames(S) ==
    IF S = {} THEN <<>>
    ELSE LET m == CHOOSE x \in S : \A y \in S \ {x} : StrLess(x, y)
         IN  <<m>> \o SortedNames(S \ {m})

\* os.ReadDir: the entry names of dir sorted by filename; unreadable is the
\* set of directories the process may not list
ReadDir(fs, dir, unreadable) ==
    IF dir \notin DOMAIN fs THEN [names |-> <<>>, err |-> LookupErr(fs, dir)]
    ELSE IF ~fs[dir].isDir THEN [names |-> <<>>, err |-> ENOTDIR]
    ELSE IF dir \in unreadable THEN [names |-> <<>>, err |-> EACCES]
    ELSE [names |-> SortedNames({Base(q) : q \in ChildrenOf(fs, dir)}), err |-> Nil]

-----------------------------------------------------------------------------
(* The arguments of the requests *)

Users == {1}
Workspaces == {1, 12}

\* the relative paths of the file requests
PathA == <<"a">>
PathUpperA == <<"A">>
PathB == <<"B">>
PathAA == <<"a", "/", "a">>
PathUpperAA == <<"A", "/", "a">>
PathBA == <<"B", "/", "a">>
PathEmpty == <<>>
PathSibling == <<".", ".", "/", "1", "2", "/", "a">>
PathParent == <<".", ".", "/", "a">>

Paths == {PathA, PathAA, PathEmpty, PathSibling, PathParent}
Contents == {<<>>, <<1, 2>>}

\* one workspace with names that differ by case and sort differently bytewise
TreeWorkspaces == {1}
TreePaths == {PathA, PathUpperA, PathB, PathAA, PathUpperAA, PathBA}
TreeContents == {<<1>>}

\* the file names searched for
FindNames == {PathA, PathB}

\* one workspace with entries named .git at two levels
GitDirName == <<".", "g", "i", "t">>
PathGit == GitDirName
PathGitA == <<".", "g", "i", "t", "/", "a">>
PathBGitA == <<"B", "/", ".", "g", "i", "t", "/", "a">>
StatsPaths == {PathA, PathGit, PathGitA, PathBGitA}
StatsContents == {<<1>>, <<1, 2>>}

AllPaths == Paths \cup TreePaths \cup StatsPaths

-----------------------------------------------------------------------------
(* FileSystem *)

\* FileSystem.RootDir
RootDir == <<"/", "d">>

GetWorkspacePath(userID, workspaceID) ==
    Join(<<RootDir, Itoa(userID), Itoa(workspaceID)>>)

InitializeUserWorkspace(fs, userID, workspaceID) ==
    MkdirAll(fs, GetWorkspacePath(userID, workspaceID))

DeleteUserWorkspace(fs, userID, workspaceID) ==
    RemoveAll(fs, GetWorkspacePath(userID, workspaceID))

\* ValidatePath returning the joined path as the caller wrote it, not normalised
ValidatePathUncleaned(userID, workspaceID, path) ==
    LET workspacePath == GetWorkspacePath(userID, workspaceID)
        fullPath == workspacePath \o Slash \o path
    IN  IF ~HasPrefix(Clean(fullPath), workspacePath)
        THEN [path |-> <<>>, err |-> ErrOutside]
        ELSE [path |-> fullPath, err |-> Nil]

ValidatePath(userID, workspaceID, path) ==
    LET workspacePath == GetWorkspacePath(userID, workspaceID)
        fullPath == Join(<<workspacePath, path>>)
        cleanPath == Clean(fullPath)
    IN  IF ~HasPrefix(cleanPath, workspacePath)
        THEN [path |-> <<>>, err |-> ErrOutside]
        ELSE [path |-> cleanPath, err |-> Nil]

\* ValidatePath is a function of its arguments alone: its values on the
\* arguments of the file requests, computed once
validated ==
    [u \in Users, w \in Workspaces, p \in AllPaths |-> ValidatePath(u, w, p)]

GetFileContent(fs, userID, workspaceID, filePath) ==
    LET v == validated[userID, workspaceID, filePath]
    IN  IF v.err # Nil THEN [data |-> <<>>, err |-> v.err]
        ELSE ReadFile(fs, v.path)

\* SaveFile creating the parent directory before it looks at the validation error
SaveFileMkdirFirst(fs, userID, workspaceID, filePath, content) ==
    LET v == validated[userID, workspaceID, filePath]
        joined == Join(<<GetWorkspacePath(userID, workspaceID), filePath>>)
        m == MkdirAll(fs, Dir(joined))
    IN  IF v.err # Nil THEN [fs |-> m.fs, err |-> v.err]
        ELSE IF m.err # Nil THEN m
        ELSE WriteFile(m.fs, v.path, content)

\* SaveFile opening the file with O_APPEND in place of O_TRUNC
SaveFileAppend(fs, userID, workspaceID, filePath, content) ==
    LET v == validated[userID, workspaceID, filePath]
        m == MkdirAll(fs, Dir(v.path))
        old == IF v.path \in DOMAIN m.fs /\ ~m.fs[v.path].isDir
               THEN m.fs[v.path].data ELSE <<>>
    IN  IF v.err # Nil THEN [fs |-> fs, err |-> v.err]
        ELSE IF m.err # Nil THEN m
        ELSE WriteFile(m.fs, v.path, old \o content)

\* SaveFile opening the file without O_TRUNC: the old bytes past the new content stay
SaveFileNoTruncate(fs, userID, workspaceID, filePath, content) ==
    LET v == validated[userID, workspaceID, filePath]
        m == MkdirAll(fs, Dir(v.path))
        old == IF v.path \in DOMAIN m.fs /\ ~m.fs[v.path].isDir
               THEN m.fs[v.path].data ELSE <<>>
    IN  IF v.err # Nil THEN [fs |-> fs, err |-> v.err]
        ELSE IF m.err # Nil THEN m
        ELSE WriteFile(m.fs, v.path, content \o SubSeq(old, Len(content) + 1, Len(old)))

SaveFile(fs, userID, workspaceID, filePath, content) ==
    LET v == validated[userID, workspaceID, filePath]
    IN  IF v.err # Nil THEN [fs |-> fs, err |-> v.err]
        ELSE LET m == MkdirAll(fs, Dir(v.path))
             IN  IF m.err # Nil THEN m
                 ELSE WriteFile(m.fs, v.path, content)

\* DeleteFile emptying the file in place of removing it
DeleteFileTruncate(fs, userID, workspaceID, filePath) ==
    LET v == validated[userID, workspaceID, filePath]
    IN  IF v.err # Nil THEN [fs |-> fs, err |-> v.err]
        ELSE IF v.path \in DOMAIN fs /\ ~fs[v.path].isDir
             THEN WriteFile(fs, v.path, <<>>)
             ELSE Remove(fs, v.path)

DeleteFile(fs, userID, workspaceID, filePath) ==
    LET v == validated[userID, workspaceID, filePath]
    IN  IF v.err # Nil THEN [fs |-> fs, err |-> v.err]
        ELSE Remove(fs, v.path)


\* the less function comparing the names as they are
lessNameBytes(a, b) == StrLess(a, b)

\* the less function of the two sort.Slice calls: lower-cased names compared
lessName(a, b) == StrLess(ToLower(a), ToLower(b))

\* one pass of the inner loop of insertion sort: x moves left past every
\* element it is less than
RECURSIVE insertName(_, _)
insertName(sorted, x) ==
    IF sorted = <<>> THEN <<x>>
    ELSE IF lessName(x, sorted[Len(sorted)])
         THEN Append(insertName(SubSeq(sorted, 1, Len(sorted) - 1), x),
                     sorted[Len(sorted)])
         ELSE Append(sorted, x)

\* sort.Slice on a slice of at most 12 names (insertion sort)
RECURSIVE sortSlice(_)
sortSlice(names) ==
    IF names = <<>> THEN <<>>
    ELSE insertName(sortSlice(SubSeq(names, 1, Len(names) - 1)), names[Len(names)])

FileNode(path, name, children) ==
    [ID |-> path, Name |-> name, Path |-> path, Children |-> children]

\* the two groups of walkDirectory in the order it emits them
entryOrder(dirs, files) == sortSlice(dirs) \o sortSlice(files)

RECURSIVE walkDirectory(_, _, _, _)
RECURSIVE walkEntries(_, _, _, _, _)
RECURSIVE walkEntriesSkipFailed(_, _, _, _, _)

\* the loops going on to the next entry when a subdirectory cannot be read
walkEntriesSkipFailed(fs, dir, prefix, unreadable, names) ==
    IF names = <<>> THEN [nodes |-> <<>>, err |-> Nil]
    ELSE LET name == Head(names)
             path == Join(<<prefix, name>>)
             fullPath == Join(<<dir, name>>)
             sub == IF fs[fullPath].isDir
                    THEN walkDirectory(fs, fullPath, path, unreadable)
                    ELSE [nodes |-> <<>>, err |-> Nil]
             rest == walkEntriesSkipFailed(fs, dir, prefix, unreadable, Tail(names))
         IN  IF sub.err # Nil THEN rest
             ELSE [nodes |-> <<FileNode(path, name, sub.nodes)>> \o rest.nodes,
                   err |-> Nil]

\* the two loops over the sorted groups; stops at the first failing subdirectory
walkEntries(fs, dir, prefix, unreadable, names) ==
    IF names = <<>> THEN [nodes |-> <<>>, err |-> Nil]
    ELSE LET name == Head(names)
             path == Join(<<prefix, name>>)
             fullPath == Join(<<dir, name>>)
             sub == IF fs[fullPath].isDir
                    THEN walkDirectory(fs, fullPath, path, unreadable)
                    ELSE [nodes |-> <<>>, err |-> Nil]
         IN  IF sub.err # Nil THEN [nodes |-> <<>>, err |-> sub.err]
             ELSE LET rest == walkEntries(fs, dir, prefix, unreadable, Tail(names))
                  IN  IF rest.err # Nil THEN rest
                      ELSE [nodes |-> <<FileNode(path, name, sub.nodes)>> \o rest.nodes,
                            err |-> Nil]

walkDirectory(fs, dir, prefix, unreadable) ==
    LET rd == ReadDir(fs, dir, unreadable)
        IsDirName(n) == fs[Join(<<dir, n>>)].isDir
        IsFileName(n) == ~fs[Join(<<dir, n>>)].isDir
    IN  IF rd.err # Nil THEN [nodes |-> <<>>, err |-> rd.err]
        ELSE walkEntries(fs, dir, prefix, unreadable,
                         entryOrder(SelectSeq(rd.names, IsDirName),
                                    SelectSeq(rd.names, IsFileName)))

ListFilesRecursively(fs, userID, workspaceID, unreadable) ==
    walkDirectory(fs, GetWorkspacePath(userID, workspaceID), <<>>, unreadable)

ErrFileNotFound == "file not found"

\* strings.EqualFold on ASCII names
EqualFold(s, t) == ToLower(s) = ToLower(t)

\* filepath.Rel(basepath, targpath) for a cleaned targpath at or below basepath
Rel(basepath, targpath) ==
    IF targpath = basepath THEN Dot
    ELSE SubSeq(targpath, Len(basepath) + 2, Len(targpath))

\* the walk function comparing the names as they are
walkFnExact(workspacePath, path, filename) ==
    IF Base(path) = filename THEN <<Rel(workspacePath, path)>> ELSE <<>>

\* the walk function of FindFileByName on an entry that is not a directory:
\* what it appends to foundPaths
walkFn(workspacePath, path, filename) ==
    IF EqualFold(Base(path), filename) THEN <<Rel(workspacePath, path)>> ELSE <<>>

RECURSIVE walk(_, _, _, _, _)
RECURSIVE walkNames(_, _, _, _, _, _)

\* the loop of filepath.Walk over the sorted names of a directory; stops at the
\* first error
walkNames(fs, workspacePath, dir, unreadable, filename, names) ==
    IF names = <<>> THEN [paths |-> <<>>, err |-> Nil]
    ELSE LET first == walk(fs, workspacePath, Join(<<dir, Head(names)>>), unreadable, filename)
         IN  IF first.err # Nil THEN [paths |-> <<>>, err |-> first.err]
             ELSE LET rest == walkNames(fs, workspacePath, dir, unreadable, filename, Tail(names))
                  IN  IF rest.err # Nil THEN rest
                      ELSE [paths |-> first.paths \o rest.paths, err |-> Nil]

\* filepath.Walk below an existing path: a file is handed to the walk function;
\* a directory is read, handed to the walk function with the error of the read,
\* and its entries are walked in the order of their names
walk(fs, workspacePath, path, unreadable, filename) ==
    IF ~fs[path].isDir
    THEN [paths |-> walkFn(workspacePath, path, filename), err |-> Nil]
    ELSE LET rd == ReadDir(fs, path, unreadable)
         IN  IF rd.err # Nil THEN [paths |-> <<>>, err |-> rd.err]
             ELSE walkNames(fs, workspacePath, path, unreadable, filename, rd.names)

\* FindFileByName with the found paths sorted like the names of a listing
FindFileByNameSorted(fs, userID, workspaceID, filename, unreadable) ==
    LET workspacePath == GetWorkspacePath(userID, workspaceID)
        r == IF workspacePath \in DOMAIN fs
             THEN walk(fs, workspacePath, workspacePath, unreadable, filename)
             ELSE [paths |-> <<>>, err |-> LookupErr(fs, workspacePath)]
    IN  IF r.err # Nil THEN [paths |-> <<>>, err |-> r.err]
        ELSE IF Len(r.paths) = 0 THEN [paths |-> <<>>, err |-> ErrFileNotFound]
        ELSE [paths |-> sortSlice(r.paths), err |-> Nil]

FindFileByName(fs, userID, workspaceID, filename, unreadable) ==
    LET workspacePath == GetWorkspacePath(userID, workspaceID)
        r == IF workspacePath \in DOMAIN fs
             THEN walk(fs, workspacePath, workspacePath, unreadable, filename)
             ELSE [paths |-> <<>>, err |-> LookupErr(fs, workspacePath)]
    IN  IF r.err # Nil THEN [paths |-> <<>>, err |-> r.err]
        ELSE IF Len(r.paths) = 0 THEN [paths |-> <<>>, err |-> ErrFileNotFound]
        ELSE [paths |-> r.paths, err |-> Nil]

ErrNoWorkspace == "workspace directory does not exist"

NoStats == [TotalFiles |-> 0, TotalSize |-> 0]

\* a walk function that skips no directory
countSkipsNone(fs, path) == FALSE

\* the walk function of countFilesInPath returns filepath.SkipDir for path
countSkips(fs, path) == fs[path].isDir /\ Base(path) = GitDirName

RECURSIVE walkDir(_, _, _)
RECURSIVE walkDirEntries(_, _, _, _)

\* the loop of filepath.WalkDir over the entries of a directory; stops at the
\* first error
walkDirEntries(fs, dir, unreadable, names) ==
    IF names = <<>> THEN [stats |-> NoStats, err |-> Nil]
    ELSE LET first == walkDir(fs, Join(<<dir, Head(names)>>), unreadable)
         IN  IF first.err # Nil THEN first
             ELSE LET rest == walkDirEntries(fs, dir, unreadable, Tail(names))
                  IN  IF rest.err # Nil THEN rest
                      ELSE [stats |-> [TotalFiles |-> first.stats.TotalFiles + rest.stats.TotalFiles,
                                       TotalSize |-> first.stats.TotalSize + rest.stats.TotalSize],
                            err |-> Nil]

\* filepath.WalkDir below an existing path with the walk function of
\* countFilesInPath: the function sees an entry before a directory is read,
\* skips a directory named .git, and counts an entry that is not a directory
walkDir(fs, path, unreadable) ==
    IF countSkips(fs, path) THEN [stats |-> NoStats, err |-> Nil]
    ELSE IF ~fs[path].isDir
         THEN [stats |-> [TotalFiles |-> 1, TotalSize |-> Len(fs[path].data)], err |-> Nil]
         ELSE LET rd == ReadDir(fs, path, unreadable)
              IN  IF rd.err # Nil THEN [stats |-> NoStats, err |-> rd.err]
                  ELSE walkDirEntries(fs, path, unreadable, rd.names)

\* the error is returned wrapped ("error counting files: %w"); the result is
\* nil then
countFilesInPath(fs, directoryPath, unreadable) ==
    IF directoryPath \notin DOMAIN fs
    THEN [stats |-> NoStats, err |-> LookupErr(fs, directoryPath)]
    ELSE LET r == walkDir(fs, directoryPath, unreadable)
         IN  IF r.err # Nil THEN [stats |-> NoStats, err |-> r.err] ELSE r

GetFileStats(fs, userID, workspaceID, unreadable) ==
    LET workspacePath == GetWorkspacePath(userID, workspaceID)
    IN  IF LookupErr(fs, workspacePath) = ENOENT
        THEN [stats |-> NoStats, err |-> ErrNoWorkspace]
        ELSE countFilesInPath(fs, workspacePath, unreadable)

-----------------------------------------------------------------------------
(* The git client: one client per enabled workspace.  A client is the record
   [id, WorkDir, repo]: id stands for the identity of the allocated object,
   repo tells whether c.repo holds an open repository.  What the remote and
   the git library answer is the argument o of each operation: o.fails names
   the first step that fails ("none" for no failure), o.upToDate tells that
   the remote reports NoErrAlreadyUpToDate, o.repo and o.disk tell what a
   failed clone returns and leaves on disk. *)

ErrGitNotConfigured == "git settings not configured for this workspace"
ErrNotInitialized == "repository not initialized"
ErrClone == "failed to clone repository"
ErrOpen == "failed to open existing repository"
ErrWorktree == "failed to get worktree"
ErrPull == "failed to pull changes"
ErrAdd == "failed to add changes"
ErrCommit == "failed to commit changes"
ErrPush == "failed to push changes"

\* the errors the git library hands to the client: git.NoErrAlreadyUpToDate,
\* any other error of the remote, any error of the local repository
NoErrAlreadyUpToDate == "already up-to-date"
ErrRemote == "remote error"
ErrLocal == "local error"

\* plumbing.ZeroHash, and the hash of a commit that was created
ZeroHash == 0
NewHash == 1

Answer(fails, upToDate, repo, disk) ==
    [fails |-> fails, upToDate |-> upToDate, repo |-> repo, disk |-> disk]

\* New: a client with no open repository
NewGitRepo(workDir, id) == [id |-> id, WorkDir |-> workDir, repo |-> FALSE]

\* Clone: c.repo is assigned whatever git.PlainClone returns, also on failure
clientClone(c, fs, o) ==
    LET mk == MkdirAll(fs, Join(<<c.WorkDir, GitDirName>>))
    IN  IF o.fails = "clone"
        THEN [c |-> [c EXCEPT !.repo = o.repo],
              fs |-> IF o.disk /\ mk.err = Nil THEN mk.fs ELSE fs,
              err |-> ErrClone, steps |-> <<"clone">>, cause |-> ErrRemote]
        ELSE IF mk.err # Nil
             THEN [c |-> [c EXCEPT !.repo = FALSE], fs |-> fs,
                   err |-> ErrClone, steps |-> <<"clone">>, cause |-> ErrLocal]
             ELSE [c |-> [c EXCEPT !.repo = TRUE], fs |-> mk.fs,
                   err |-> Nil, steps |-> <<"clone">>, cause |-> Nil]

\* what w.Pull or c.repo.Push returns: an error of the remote, the sentinel
\* git.NoErrAlreadyUpToDate, or nil
remoteErr(o, step) ==
    IF o.fails = step THEN ErrRemote
    ELSE IF o.upToDate THEN NoErrAlreadyUpToDate
    ELSE Nil

\* Pull treating the sentinel as a failure
clientPullStrict(c, o) ==
    LET err == remoteErr(o, "pull")
    IN  IF ~c.repo THEN [err |-> ErrNotInitialized, steps |-> <<>>, cause |-> Nil]
        ELSE IF o.fails = "worktree"
             THEN [err |-> ErrWorktree, steps |-> <<>>, cause |-> ErrLocal]
        ELSE IF err # Nil
             THEN [err |-> ErrPull, steps |-> <<"pull">>, cause |-> err]
        ELSE [err |-> Nil, steps |-> <<"pull">>, cause |-> err]

\* Pull: NoErrAlreadyUpToDate is success
clientPull(c, o) ==
    LET err == remoteErr(o, "pull")
    IN  IF ~c.repo THEN [err |-> ErrNotInitialized, steps |-> <<>>, cause |-> Nil]
        ELSE IF o.fails = "worktree"
             THEN [err |-> ErrWorktree, steps |-> <<>>, cause |-> ErrLocal]
        ELSE IF err # Nil /\ err # NoErrAlreadyUpToDate
             THEN [err |-> ErrPull, steps |-> <<"pull">>, cause |-> err]
        ELSE [err |-> Nil, steps |-> <<"pull">>, cause |-> err]

\* Commit going on without an open repository
clientCommitUnchecked(c, o) ==
    IF o.fails = "worktree"
    THEN [err |-> ErrWorktree, steps |-> <<>>, cause |-> ErrLocal, hash |-> ZeroHash]
    ELSE IF o.fails = "add"
         THEN [err |-> ErrAdd, steps |-> <<"add">>, cause |-> ErrLocal, hash |-> ZeroHash]
    ELSE IF o.fails = "commit"
         THEN [err |-> ErrCommit, steps |-> <<"add", "commit">>, cause |-> ErrLocal,
               hash |-> ZeroHash]
    ELSE [err |-> Nil, steps |-> <<"add", "commit">>, cause |-> Nil, hash |-> NewHash]

\* Commit: stage everything, then commit; the zero hash with every error
clientCommit(c, o) ==
    IF ~c.repo
    THEN [err |-> ErrNotInitialized, steps |-> <<>>, cause |-> Nil, hash |-> ZeroHash]
    ELSE IF o.fails = "worktree"
         THEN [err |-> ErrWorktree, steps |-> <<>>, cause |-> ErrLocal, hash |-> ZeroHash]
    ELSE IF o.fails = "add"
         THEN [err |-> ErrAdd, steps |-> <<"add">>, cause |-> ErrLocal, hash |-> ZeroHash]
    ELSE IF o.fails = "commit"
         THEN [err |-> ErrCommit, steps |-> <<"add", "commit">>, cause |-> ErrLocal,
               hash |-> ZeroHash]
    ELSE [err |-> Nil, steps |-> <<"add", "commit">>, cause |-> Nil, hash |-> NewHash]

\* Push: NoErrAlreadyUpToDate is success
clientPush(c, o) ==
    LET err == remoteErr(o, "push")
    IN  IF ~c.repo THEN [err |-> ErrNotInitialized, steps |-> <<>>, cause |-> Nil]
        ELSE IF err # Nil /\ err # NoErrAlreadyUpToDate
             THEN [err |-> ErrPush, steps |-> <<"push">>, cause |-> err]
        ELSE [err |-> Nil, steps |-> <<"push">>, cause |-> err]

\* EnsureRepo keeping the opened repository only when the pull succeeds
clientEnsureRepoKeepOnSuccess(c, fs, o) ==
    IF LookupErr(fs, Join(<<c.WorkDir, GitDirName>>)) = ENOENT
    THEN clientClone(c, fs, o)
    ELSE IF o.fails = "open"
         THEN [c |-> [c EXCEPT !.repo = FALSE], fs |-> fs,
               err |-> ErrOpen, steps |-> <<"open">>, cause |-> ErrLocal]
         ELSE LET opened == [c EXCEPT !.repo = TRUE]
                  p == clientPull(opened, o)
              IN  [c |-> [c EXCEPT !.repo = (p.err = Nil)], fs |-> fs, err |-> p.err,
                   steps |-> <<"open">> \o p.steps, cause |-> p.cause]

\* EnsureRepo cloning whatever the working directory holds
clientEnsureRepoReclone(c, fs, o) == clientClone(c, fs, o)

\* EnsureRepo: clone when WorkDir/.git does not exist, else open and pull;
\* c.repo is assigned whatever git.PlainOpen returns, nil on failure
clientEnsureRepo(c, fs, o) ==
    IF LookupErr(fs, Join(<<c.WorkDir, GitDirName>>)) = ENOENT
    THEN clientClone(c, fs, o)
    ELSE IF o.fails = "open"
         THEN [c |-> [c EXCEPT !.repo = FALSE], fs |-> fs,
               err |-> ErrOpen, steps |-> <<"open">>, cause |-> ErrLocal]
         ELSE LET opened == [c EXCEPT !.repo = TRUE]
                  p == clientPull(opened, o)
              IN  [c |-> opened, fs |-> fs, err |-> p.err,
                   steps |-> <<"open">> \o p.steps, cause |-> p.cause]

-----------------------------------------------------------------------------
(* The commits of the repositories under observation.  commits maps the
   working directory of an observed repository to the commits of its local
   clone, the commits the remote has, and the identifier of the next commit;
   the client is the only one that pushes to the remote.  A repository that
   is not observed has no entry, and what its remote answers is not
   constrained. *)

MaxCommits == 2

NoCommits == [local |-> {}, remote |-> {}, next |-> 1]

\* the last step of the call with result r is the given one, on an observed
\* repository
reached(h, workDir, r, step) ==
    workDir \in DOMAIN h /\ r.steps # <<>> /\ r.steps[Len(r.steps)] = step

\* git.PlainClone succeeded: the local clone has what the remote has
cloned(h, workDir, r) ==
    IF reached(h, workDir, r, "clone") /\ r.err = Nil
    THEN [h EXCEPT ![workDir].local = h[workDir].remote]
    ELSE h

\* w.Pull returned nil: the local clone was brought forward to the remote
pulled(h, workDir, r) ==
    IF reached(h, workDir, r, "pull") /\ r.cause = Nil
    THEN [h EXCEPT ![workDir].local = h[workDir].remote]
    ELSE h

\* w.Commit returned the hash of a new commit
committed(h, workDir, hash) ==
    IF workDir \in DOMAIN h /\ hash # ZeroHash
    THEN [h EXCEPT ![workDir].local = @ \cup {h[workDir].next},
                   ![workDir].next = @ + 1]
    ELSE h

\* c.repo.Push returned nil: the remote has every commit of the local clone
pushed(h, workDir, r) ==
    IF reached(h, workDir, r, "push") /\ r.cause = Nil
    THEN [h EXCEPT ![workDir].remote = h[workDir].local]
    ELSE h

\* os.RemoveAll removed the local clones at or below path
removed(h, path) ==
    [d \in DOMAIN h |->
        IF d = path \/ IsUnder(d, path) THEN [h[d] EXCEPT !.local = {}] ELSE h[d]]

\* what the remote answers to a pull: NoErrAlreadyUpToDate exactly when the
\* local clone has every commit of the remote, and an error when the local
\* clone has commits of its own and lacks some of the remote
pullAnswer(h, workDir, o, r) ==
    (reached(h, workDir, r, "pull") /\ o.fails # "pull") =>
        /\ o.upToDate = (h[workDir].remote \subseteq h[workDir].local)
        /\ ~o.upToDate => h[workDir].local \subseteq h[workDir].remote

\* what the remote answers to a push: NoErrAlreadyUpToDate exactly when it
\* has every commit of the local clone, and an error when the local clone
\* lacks some commit of the remote
pushAnswer(h, workDir, o, r) ==
    (reached(h, workDir, r, "push") /\ o.fails # "push") =>
        /\ o.upToDate = (h[workDir].local \subseteq h[workDir].remote)
        /\ h[workDir].remote \subseteq h[workDir].local

\* the commits of an observed repository are bounded
mayCommit(h, workDir) ==
    workDir \in DOMAIN h => h[workDir].next <= MaxCommits

-----------------------------------------------------------------------------
(* The registry of git clients: FileSystem.GitRepos *)

\* a map without keys: make(map[int]...)
EmptyMap == [k \in {} |-> 0]

\* the identities of the clients in the registry
IdsOf(repos) ==
    UNION {{repos[u][w].id : w \in DOMAIN repos[u]} : u \in DOMAIN repos}

NoRepo == [id |-> 0, WorkDir |-> <<>>, repo |-> FALSE]

\* a lookup by user alone: any client of the user stands in for a workspace
\* that has none
getGitRepoOfUser(repos, userID, workspaceID) ==
    IF userID \notin DOMAIN repos THEN [repo |-> NoRepo, ok |-> FALSE]
    ELSE IF workspaceID \notin DOMAIN repos[userID]
         THEN [repo |-> repos[userID][CHOOSE w \in DOMAIN repos[userID] : TRUE], ok |-> TRUE]
         ELSE [repo |-> repos[userID][workspaceID], ok |-> TRUE]

getGitRepo(repos, userID, workspaceID) ==
    IF userID \notin DOMAIN repos THEN [repo |-> NoRepo, ok |-> FALSE]
    ELSE IF workspaceID \notin DOMAIN repos[userID] THEN [repo |-> NoRepo, ok |-> FALSE]
    ELSE [repo |-> repos[userID][workspaceID], ok |-> TRUE]

\* the entry of the workspace with the given client
PutRepo(repos, userID, workspaceID, c) ==
    LET withUser == IF userID \in DOMAIN repos THEN repos
                    ELSE (userID :> EmptyMap) @@ repos
    IN  [withUser EXCEPT ![userID] = (workspaceID :> c) @@ @]

\* the identity of a newly allocated client: one no client of the registry has
FreshId(repos) ==
    CHOOSE i \in 1..(Cardinality(IdsOf(repos)) + 1) :
        /\ i \notin IdsOf(repos)
        /\ \A j \in 1..(i - 1) : j \in IdsOf(repos)

\* SetupGitRepo keeping the client a workspace already has
SetupGitRepoKeepExisting(repos, fs, userID, workspaceID, o) ==
    LET workspacePath == GetWorkspacePath(userID, workspaceID)
        g == getGitRepo(repos, userID, workspaceID)
        c == IF g.ok THEN g.repo ELSE NewGitRepo(workspacePath, FreshId(repos))
        r == clientEnsureRepo(c, fs, o)
    IN  [GitRepos |-> PutRepo(repos, userID, workspaceID, r.c), fs |-> r.fs,
         err |-> r.err, steps |-> r.steps, handle |-> c.id, cause |-> r.cause]

\* SetupGitRepo: the new client is put into the registry, then EnsureRepo runs
\* on it and its error is returned
SetupGitRepo(repos, fs, userID, workspaceID, o) ==
    LET workspacePath == GetWorkspacePath(userID, workspaceID)
        c == NewGitRepo(workspacePath, FreshId(repos))
        r == clientEnsureRepo(c, fs, o)
    IN  [GitRepos |-> PutRepo(repos, userID, workspaceID, r.c), fs |-> r.fs,
         err |-> r.err, steps |-> r.steps, handle |-> c.id, cause |-> r.cause]

\* DisableGitRepo deleting the user's map whatever it still holds
DisableGitRepoDropUser(repos, userID, workspaceID) ==
    IF userID \in DOMAIN repos
    THEN [u \in DOMAIN repos \ {userID} |-> repos[u]]
    ELSE repos

DisableGitRepo(repos, userID, workspaceID) ==
    IF userID \in DOMAIN repos
    THEN LET userRepos == [w \in DOMAIN repos[userID] \ {workspaceID} |-> repos[userID][w]]
         IN  IF DOMAIN userRepos = {}
             THEN [u \in DOMAIN repos \ {userID} |-> repos[u]]
             ELSE [repos EXCEPT ![userID] = userRepos]
    ELSE repos

\* StageCommitAndPush undoing its commit when the push fails
StageCommitAndPushRollback(repos, userID, workspaceID, o) ==
    LET g == getGitRepo(repos, userID, workspaceID)
        c == clientCommit(g.repo, o)
        p == clientPush(g.repo, o)
    IN  IF ~g.ok
        THEN [err |-> ErrGitNotConfigured, steps |-> <<>>, handle |-> 0,
              cause |-> Nil, hash |-> ZeroHash]
        ELSE IF c.err # Nil
             THEN [err |-> c.err, steps |-> c.steps, handle |-> g.repo.id,
                   cause |-> c.cause, hash |-> c.hash]
        ELSE [err |-> p.err, steps |-> c.steps \o p.steps, handle |-> g.repo.id,
              cause |-> p.cause, hash |-> IF p.err # Nil THEN ZeroHash ELSE c.hash]

\* StageCommitAndPush pushing whatever Commit returned
StageCommitAndPushRegardless(repos, userID, workspaceID, o) ==
    LET g == getGitRepo(repos, userID, workspaceID)
        c == clientCommit(g.repo, o)
        p == clientPush(g.repo, o)
    IN  IF ~g.ok
        THEN [err |-> ErrGitNotConfigured, steps |-> <<>>, handle |-> 0,
              cause |-> Nil, hash |-> ZeroHash]
        ELSE [err |-> IF c.err # Nil THEN c.err ELSE p.err,
              steps |-> c.steps \o p.steps, handle |-> g.repo.id,
              cause |-> IF c.err # Nil THEN c.cause ELSE p.cause, hash |-> c.hash]

\* StageCommitAndPush: Commit, and Push only when Commit returned no error
StageCommitAndPush(repos, userID, workspaceID, o) ==
    LET g == getGitRepo(repos, userID, workspaceID)
        c == clientCommit(g.repo, o)
        p == clientPush(g.repo, o)
    IN  IF ~g.ok
        THEN [err |-> ErrGitNotConfigured, steps |-> <<>>, handle |-> 0,
              cause |-> Nil, hash |-> ZeroHash]
        ELSE IF c.err # Nil
             THEN [err |-> c.err, steps |-> c.steps, handle |-> g.repo.id,
                   cause |-> c.cause, hash |-> c.hash]
        ELSE [err |-> p.err, steps |-> c.steps \o p.steps, handle |-> g.repo.id,
              cause |-> p.cause, hash |-> c.hash]

Pull(repos, userID, workspaceID, o) ==
    LET g == getGitRepo(repos, userID, workspaceID)
        p == clientPull(g.repo, o)
    IN  IF ~g.ok
        THEN [err |-> ErrGitNotConfigured, steps |-> <<>>, handle |-> 0, cause |-> Nil]
        ELSE [err |-> p.err, steps |-> p.steps, handle |-> g.repo.id, cause |-> p.cause]

-----------------------------------------------------------------------------
(* Workspace access control: auth.Middleware.RequireWorkspaceAccess.  The
   handler context of a request is a record; isNil tells a nil pointer. *)

StatusNotFound == 404
StatusInternalServerError == 500

RoleAdmin == "admin"
Roles == {RoleAdmin, "editor", "viewer"}

NilWorkspace == [isNil |-> TRUE, ID |-> 0, UserID |-> 0]
NilContext == [isNil |-> TRUE, UserID |-> 0, UserRole |-> "", Workspace |-> NilWorkspace]

\* the response of a middleware: the status it wrote with http.Error (0 when
\* it wrote nothing), and whether it called next.ServeHTTP and with what
NoResponse == [status |-> 0, next |-> FALSE, passed |-> NilContext]

\* RequireWorkspaceAccess letting only the owner through
RequireWorkspaceAccessOwnerOnly(ctx) ==
    IF ctx.isNil THEN [NoResponse EXCEPT !.status = StatusInternalServerError]
    ELSE IF ctx.Workspace.isNil THEN [NoResponse EXCEPT !.next = TRUE, !.passed = ctx]
    ELSE IF ctx.Workspace.UserID # ctx.UserID
         THEN [NoResponse EXCEPT !.status = StatusNotFound]
    ELSE [NoResponse EXCEPT !.next = TRUE, !.passed = ctx]

RequireWorkspaceAccess(ctx) ==
    IF ctx.isNil THEN [NoResponse EXCEPT !.status = StatusInternalServerError]
    ELSE IF ctx.Workspace.isNil THEN [NoResponse EXCEPT !.next = TRUE, !.passed = ctx]
    ELSE IF ctx.Workspace.UserID # ctx.UserID /\ ctx.UserRole # RoleAdmin
         THEN [NoResponse EXCEPT !.status = StatusNotFound]
    ELSE [NoResponse EXCEPT !.next = TRUE, !.passed = ctx]

-----------------------------------------------------------------------------
(* Requests *)

MaxFiles == 2
MaxSegs == 3

\* the path arguments of the ValidatePath calls: up to MaxSegs elements
PathElems == {<<"a">>, <<"1">>, <<"1", "2">>, Dot, DotDot, <<>>}
ValidatePaths ==
    {JoinSep(segs) : segs \in UNION {[1..n -> PathElems] : n \in 1..MaxSegs}}

NoResult ==
    [op |-> "none", u |-> 0, w |-> 0, path |-> <<>>, data |-> <<>>,
     err |-> Nil, out |-> <<>>, nodes |-> <<>>, bad |-> {}, stats |-> NoStats,
     steps |-> <<>>, handle |-> 0, cause |-> Nil, hash |-> ZeroHash,
     ctx |-> NilContext, response |-> NoResponse]

Init ==
    /\ fsys = (Slash :> DirEntry)
    /\ result = NoResult
    /\ GitRepos = EmptyMap
    /\ commits = EmptyMap
    /\ calls = EmptyMap

NumFiles(fs) == Cardinality({q \in DOMAIN fs : ~fs[q].isDir})

\* a call of ValidatePath with the arguments drawn in InitPath
ValidatePathCall ==
    LET r == ValidatePath(result.u, result.w, result.path)
    IN  /\ result.op = "call ValidatePath"
        /\ fsys' = fsys
        /\ result' = [result EXCEPT !.op = "ValidatePath", !.err = r.err, !.out = r.path]
        /\ UNCHANGED <<GitRepos, commits, calls>>

InitializeCall(u, w) ==
    LET r == InitializeUserWorkspace(fsys, u, w)
    IN  /\ fsys' = r.fs
        /\ result' = [NoResult EXCEPT !.op = "InitializeUserWorkspace",
                                      !.u = u, !.w = w, !.err = r.err]
        /\ UNCHANGED <<GitRepos, commits, calls>>

DeleteWorkspaceCall(u, w) ==
    LET r == DeleteUserWorkspace(fsys, u, w)
    IN  /\ fsys' = r.fs
        /\ result' = [NoResult EXCEPT !.op = "DeleteUserWorkspace",
                                      !.u = u, !.w = w, !.err = r.err]
        /\ commits' = removed(commits, GetWorkspacePath(u, w))
        /\ UNCHANGED <<GitRepos, calls>>

SaveFileCall(u, w, p, b) ==
    LET r == SaveFile(fsys, u, w, p, b)
    IN  /\ NumFiles(r.fs) <= MaxFiles
        /\ fsys' = r.fs
        /\ result' = [NoResult EXCEPT !.op = "SaveFile", !.u = u, !.w = w,
                                      !.path = p, !.data = b, !.err = r.err]
        /\ UNCHANGED <<GitRepos, commits, calls>>

DeleteFileCall(u, w, p) ==
    LET r == DeleteFile(fsys, u, w, p)
    IN  /\ fsys' = r.fs
        /\ result' = [NoResult EXCEPT !.op = "DeleteFile", !.u = u, !.w = w,
                                      !.path = p, !.err = r.err]
        /\ UNCHANGED <<GitRepos, commits, calls>>

GetFileContentCall(u, w, p) ==
    LET r == GetFileContent(fsys, u, w, p)
    IN  /\ fsys' = fsys
        /\ result' = [NoResult EXCEPT !.op = "GetFileContent", !.u = u, !.w = w,
                                      !.path = p, !.err = r.err, !.out = r.data]
        /\ UNCHANGED <<GitRepos, commits, calls>>

\* the directories at or below the workspace root
DirsOf(fs, u, w) ==
    LET root == GetWorkspacePath(u, w)
    IN  {q \in DOMAIN fs : fs[q].isDir /\ (q = root \/ IsUnder(q, root))}

ListFilesCall(u, w, unreadable) ==
    LET r == ListFilesRecursively(fsys, u, w, unreadable)
    IN  /\ fsys' = fsys
        /\ result' = [NoResult EXCEPT !.op = "ListFilesRecursively", !.u = u, !.w = w,
                                      !.err = r.err, !.nodes = r.nodes,
                                      !.bad = unreadable]
        /\ UNCHANGED <<GitRepos, commits, calls>>

\* the file requests of the given workspaces with the given paths and contents
Requests(ws, paths, contents) ==
    \/ \E u \in Users, w \in ws : InitializeCall(u, w)
    \/ \E u \in Users, w \in ws : DeleteWorkspaceCall(u, w)
    \/ \E u \in Users, w \in ws, p \in paths, b \in contents : SaveFileCall(u, w, p, b)
    \/ \E u \in Users, w \in ws, p \in paths : DeleteFileCall(u, w, p)
    \/ \E u \in Users, w \in ws, p \in paths : GetFileContentCall(u, w, p)
    \/ \E u \in Users, w \in ws :
          \E unreadable \in {{}} \cup {{d} : d \in DirsOf(fsys, u, w)} :
              ListFilesCall(u, w, unreadable)

Next == Requests(Workspaces, Paths, Contents)

Spec == Init /\ [][Next]_vars

FindFileCall(u, w, filename, unreadable) ==
    LET r == FindFileByName(fsys, u, w, filename, unreadable)
    IN  /\ fsys' = fsys
        /\ result' = [NoResult EXCEPT !.op = "FindFileByName", !.u = u, !.w = w,
                                      !.path = filename, !.err = r.err,
                                      !.out = r.paths, !.bad = unreadable]
        /\ UNCHANGED <<GitRepos, commits, calls>>

NextTree ==
    \/ Requests(TreeWorkspaces, TreePaths, TreeContents)
    \/ \E u \in Users, w \in TreeWorkspaces, filename \in FindNames :
          \E unreadable \in {{}} \cup {{d} : d \in DirsOf(fsys, u, w)} :
              FindFileCall(u, w, filename, unreadable)

\* the same operations on one workspace whose entry names mix cases
SpecTree == Init /\ [][NextTree]_vars

GetFileStatsCall(u, w, unreadable) ==
    LET r == GetFileStats(fsys, u, w, unreadable)
    IN  /\ fsys' = fsys
        /\ result' = [NoResult EXCEPT !.op = "GetFileStats", !.u = u, !.w = w,
                                      !.err = r.err, !.stats = r.stats,
                                      !.bad = unreadable]
        /\ UNCHANGED <<GitRepos, commits, calls>>

NextStats ==
    \/ Requests(TreeWorkspaces, StatsPaths, StatsContents)
    \/ \E u \in Users, w \in TreeWorkspaces :
          \E unreadable \in {{}} \cup {{d} : d \in DirsOf(fsys, u, w)} :
              GetFileStatsCall(u, w, unreadable)

\* the same operations and the statistics on one workspace with .git entries
SpecStats == Init /\ [][NextStats]_vars

InitPath ==
    /\ fsys = (Slash :> DirEntry)
    /\ result \in {[NoResult EXCEPT !.op = "call ValidatePath", !.u = u, !.w = w, !.path = p] :
                      u \in Users, w \in Workspaces, p \in ValidatePaths}
    /\ GitRepos = EmptyMap
    /\ commits = EmptyMap
    /\ calls = EmptyMap

NextPath == ValidatePathCall

\* ValidatePath alone, on every path of up to MaxSegs elements
SpecPath == InitPath /\ [][NextPath]_vars

\* the workspaces with remote sync: two workspaces of one user
GitKeys == {<<1, 1>>, <<1, 12>>}

\* the working directory of the client of each workspace, computed once
WorkDirOf == [k \in GitKeys |-> GetWorkspacePath(k[1], k[2])]

\* what the remote and the git library can answer to each call
SetupAnswers ==
    {Answer("none", b, TRUE, TRUE) : b \in BOOLEAN}
        \cup {Answer("clone", FALSE, r, d) : r, d \in BOOLEAN}
        \cup {Answer(f, FALSE, FALSE, FALSE) : f \in {"open", "worktree", "pull"}}
PullAnswers ==
    {Answer("none", b, TRUE, TRUE) : b \in BOOLEAN}
        \cup {Answer(f, FALSE, FALSE, FALSE) : f \in {"worktree", "pull"}}
StageAnswers ==
    {Answer("none", b, TRUE, TRUE) : b \in BOOLEAN}
        \cup {Answer(f, FALSE, FALSE, FALSE) : f \in {"worktree", "add", "commit", "push"}}

SetupGitRepoCall(u, w, o) ==
    LET r == SetupGitRepo(GitRepos, fsys, u, w, o)
    IN  /\ GitRepos' = r.GitRepos
        /\ fsys' = r.fs
        /\ pullAnswer(commits, GetWorkspacePath(u, w), o, r)
        /\ commits' = pulled(cloned(commits, GetWorkspacePath(u, w), r),
                             GetWorkspacePath(u, w), r)
        /\ result' = [NoResult EXCEPT !.op = "SetupGitRepo", !.u = u, !.w = w,
                                      !.err = r.err, !.steps = r.steps,
                                      !.handle = r.handle, !.cause = r.cause]
        /\ UNCHANGED calls

DisableGitRepoCall(u, w) ==
    /\ GitRepos' = DisableGitRepo(GitRepos, u, w)
    /\ fsys' = fsys
    /\ result' = [NoResult EXCEPT !.op = "DisableGitRepo", !.u = u, !.w = w]
    /\ UNCHANGED <<commits, calls>>

StageCommitAndPushCall(u, w, o) ==
    LET r == StageCommitAndPush(GitRepos, u, w, o)
        workDir == GetWorkspacePath(u, w)
        afterCommit == committed(commits, workDir, r.hash)
    IN  /\ mayCommit(commits, workDir)
        /\ pushAnswer(afterCommit, workDir, o, r)
        /\ commits' = pushed(afterCommit, workDir, r)
        /\ result' = [NoResult EXCEPT !.op = "StageCommitAndPush", !.u = u, !.w = w,
                                      !.err = r.err, !.steps = r.steps,
                                      !.handle = r.handle, !.cause = r.cause]
        /\ UNCHANGED <<GitRepos, fsys, calls>>

PullCall(u, w, o) ==
    LET r == Pull(GitRepos, u, w, o)
    IN  /\ pullAnswer(commits, GetWorkspacePath(u, w), o, r)
        /\ commits' = pulled(commits, GetWorkspacePath(u, w), r)
        /\ result' = [NoResult EXCEPT !.op = "Pull", !.u = u, !.w = w,
                                      !.err = r.err, !.steps = r.steps,
                                      !.handle = r.handle, !.cause = r.cause]
        /\ UNCHANGED <<GitRepos, fsys, calls>>

NextGit ==
    \/ \E k \in GitKeys : DeleteWorkspaceCall(k[1], k[2])
    \/ \E k \in GitKeys, o \in SetupAnswers : SetupGitRepoCall(k[1], k[2], o)
    \/ \E k \in GitKeys : DisableGitRepoCall(k[1], k[2])
    \/ \E k \in GitKeys, o \in StageAnswers : StageCommitAndPushCall(k[1], k[2], o)
    \/ \E k \in GitKeys, o \in PullAnswers : PullCall(k[1], k[2], o)

-----------------------------------------------------------------------------
(* Concurrent requests.  Every request runs on its own goroutine; calls.frames
   holds the frame of each: the request, the line it is at (pc), and its local
   variables.  A step is one access to a map of the registry, one call of the
   git library on the local disk, or the start or the end of a call that
   waits for the remote.  userRepos (ref) is a reference to an inner map of
   fs.GitRepos: attached while fs.GitRepos[userID] is that map, and a map of
   its own once that entry was deleted or assigned anew.  A client is held by
   value in the registry and in the frames that obtained it; an assignment to
   c.repo is applied to every copy.  calls.base is the registry the requests
   started on. *)

Goroutines == {1, 2}

ErrPanicNilMap == "panic: assignment to entry in nil map"
ErrPanicNilPointer == "panic: invalid memory address or nil pointer dereference"

NoRef == [ok |-> FALSE, attached |-> FALSE, map |-> EmptyMap]
NoPending == [repo |-> FALSE, err |-> Nil, steps |-> <<>>]

ConcOps == {"SetupGitRepo", "DisableGitRepo", "StageCommitAndPush", "Pull"}

\* the first line of each request
FirstPc(op) ==
    IF op = "SetupGitRepo" THEN "s204"
    ELSE IF op = "DisableGitRepo" THEN "d212"
    ELSE "g243"

Frame(op, u, w) ==
    [op |-> op, u |-> u, w |-> w, pc |-> FirstPc(op), ref |-> NoRef, c |-> NoRepo,
     pending |-> NoPending, err |-> Nil, steps |-> <<>>]

\* the goroutines whose lock goroutine g has to wait for, under a lock held
\* for the whole of every request
waitsForRegistryLock(cs, g) ==
    {h \in Goroutines \ {g} :
        cs.frames[h].pc \notin {FirstPc(cs.frames[h].op), "done"}}

\* the goroutines whose lock goroutine g has to wait for: FileSystem and the
\* client have no lock
waitsFor(cs, g) == {}

\* the inner map a frame's userRepos refers to
innerOf(repos, f) == IF f.ref.attached THEN repos[f.u] ELSE f.ref.map

\* fs.GitRepos[userID] is deleted or assigned anew by goroutine g: the frames
\* of the others that refer to the old inner map keep it
detach(frames, repos, g, u) ==
    [h \in DOMAIN frames |->
        IF h # g /\ frames[h].u = u /\ frames[h].ref.ok /\ frames[h].ref.attached
        THEN [frames[h] EXCEPT !.ref.attached = FALSE, !.ref.map = repos[u]]
        ELSE frames[h]]

\* the identity of a newly allocated client: one that neither the registry
\* nor a frame holds
FreshIdConc(repos, frames) ==
    LET used == IdsOf(repos) \cup {frames[h].c.id : h \in DOMAIN frames}
    IN  CHOOSE i \in 1..(Cardinality(used) + 1) :
            i \notin used /\ \A j \in 1..(i - 1) : j \in used

\* c.repo of the client with the given identity is assigned
assignRepo(repos, id, repo) ==
    [u \in DOMAIN repos |->
        [w \in DOMAIN repos[u] |->
            IF repos[u][w].id = id THEN [repos[u][w] EXCEPT !.repo = repo]
            ELSE repos[u][w]]]

\* goroutine g's frame becomes f
Goto(g, f) == calls' = [calls EXCEPT !.frames[g] = f]

Return(g, err) ==
    calls' = [calls EXCEPT !.frames[g].pc = "done", !.frames[g].err = err]

At(g, op, pc) ==
    /\ calls.frames[g].op = op
    /\ calls.frames[g].pc = pc
    /\ waitsFor(calls, g) = {}

\* the registry and the disk after SetupGitRepo succeeded for the workspaces
\* of a sequence of keys, one after the other
RECURSIVE Prepared(_)
Prepared(keys) ==
    IF keys = <<>>
    THEN [GitRepos |-> EmptyMap, fs |-> (Slash :> DirEntry)]
    ELSE LET before == Prepared(SubSeq(keys, 1, Len(keys) - 1))
             k == keys[Len(keys)]
         IN  SetupGitRepo(before.GitRepos, before.fs, k[1], k[2],
                          Answer("none", FALSE, TRUE, TRUE))

PreparedKeys == {<<>>, <<<<1, 1>>>>, <<<<1, 12>>>>, <<<<1, 1>>, <<1, 12>>>>}

\* the disks two concurrent requests can meet
ConcDisks == {Prepared(keys).fs : keys \in PreparedKeys}

\* EnsureRepo is a function of the working directory, the disk and the answer
\* of the remote: its values on the arguments of the concurrent requests,
\* computed once
ensured ==
    [k \in GitKeys, fs \in ConcDisks, o \in SetupAnswers |->
        clientEnsureRepo(NewGitRepo(WorkDirOf[k], 0), fs, o)]

\* SetupGitRepo, filesystem.go:204: _, ok := fs.GitRepos[userID]
Setup204(g) ==
    LET f == calls.frames[g]
    IN  /\ At(g, "SetupGitRepo", "s204")
        /\ Goto(g, [f EXCEPT !.pc = IF f.u \in DOMAIN GitRepos THEN "s207" ELSE "s205"])
        /\ UNCHANGED <<fsys, result, GitRepos, commits>>

\* filesystem.go:205: fs.GitRepos[userID] = make(map[int]*gitutils.GitRepo)
Setup205(g) ==
    LET f == calls.frames[g]
        others == IF f.u \in DOMAIN GitRepos
                  THEN detach(calls.frames, GitRepos, g, f.u) ELSE calls.frames
    IN  /\ At(g, "SetupGitRepo", "s205")
        /\ GitRepos' = (f.u :> EmptyMap) @@ GitRepos
        /\ calls' = [calls EXCEPT !.frames = [others EXCEPT ![g].pc = "s207"]]
        /\ UNCHANGED <<fsys, result, commits>>

\* filesystem.go:207: fs.GitRepos[userID][workspaceID] = gitutils.New(...)
Setup207(g) ==
    LET f == calls.frames[g]
        c == NewGitRepo(WorkDirOf[<<f.u, f.w>>], FreshIdConc(GitRepos, calls.frames))
    IN  /\ At(g, "SetupGitRepo", "s207")
        /\ IF f.u \in DOMAIN GitRepos
           THEN /\ GitRepos' = [GitRepos EXCEPT ![f.u] = (f.w :> c) @@ @]
                /\ Goto(g, [f EXCEPT !.pc = "s208"])
           ELSE /\ GitRepos' = GitRepos
                /\ Return(g, ErrPanicNilMap)
        /\ UNCHANGED <<fsys, result, commits>>

\* filesystem.go:208: fs.GitRepos[userID][workspaceID].EnsureRepo() up to its
\* call of git.PlainClone or git.PlainOpen
Setup208(g, o) ==
    LET f == calls.frames[g]
        found == f.u \in DOMAIN GitRepos /\ f.w \in DOMAIN GitRepos[f.u]
        c == GitRepos[f.u][f.w]
        r == ensured[<<f.u, f.w>>, fsys, o]
    IN  /\ At(g, "SetupGitRepo", "s208")
        /\ IF found
           THEN /\ fsys' = r.fs
                /\ Goto(g, [f EXCEPT !.pc = "ensure", !.c = c,
                                      !.pending = [repo |-> r.c.repo, err |-> r.err,
                                                   steps |-> r.steps]])
           ELSE /\ fsys' = fsys
                /\ Return(g, ErrPanicNilPointer)
        /\ UNCHANGED <<result, GitRepos, commits>>

\* EnsureRepo returns: c.repo is assigned and the error returned
SetupEnsured(g) ==
    LET f == calls.frames[g]
        frames == [h \in DOMAIN calls.frames |->
                     IF calls.frames[h].c.id = f.c.id
                     THEN [calls.frames[h] EXCEPT !.c.repo = f.pending.repo]
                     ELSE calls.frames[h]]
    IN  /\ At(g, "SetupGitRepo", "ensure")
        /\ GitRepos' = assignRepo(GitRepos, f.c.id, f.pending.repo)
        /\ calls' = [calls EXCEPT !.frames =
                        [frames EXCEPT ![g].pc = "done", ![g].err = f.pending.err,
                                       ![g].steps = f.pending.steps]]
        /\ UNCHANGED <<fsys, result, commits>>

\* DisableGitRepo, filesystem.go:212: userRepos, ok := fs.GitRepos[userID]
Disable212(g) ==
    LET f == calls.frames[g]
    IN  /\ At(g, "DisableGitRepo", "d212")
        /\ IF f.u \in DOMAIN GitRepos
           THEN Goto(g, [f EXCEPT !.pc = "d213",
                                  !.ref = [ok |-> TRUE, attached |-> TRUE, map |-> EmptyMap]])
           ELSE Return(g, Nil)
        /\ UNCHANGED <<fsys, result, GitRepos, commits>>

\* filesystem.go:213: delete(userRepos, workspaceID)
Disable213(g) ==
    LET f == calls.frames[g]
        inner == innerOf(GitRepos, f)
        less == [w \in DOMAIN inner \ {f.w} |-> inner[w]]
    IN  /\ At(g, "DisableGitRepo", "d213")
        /\ IF f.ref.attached
           THEN /\ GitRepos' = [GitRepos EXCEPT ![f.u] = less]
                /\ Goto(g, [f EXCEPT !.pc = "d214"])
           ELSE /\ GitRepos' = GitRepos
                /\ Goto(g, [f EXCEPT !.pc = "d214", !.ref.map = less])
        /\ UNCHANGED <<fsys, result, commits>>

\* filesystem.go:214: if len(userRepos) == 0
Disable214(g) ==
    LET f == calls.frames[g]
    IN  /\ At(g, "DisableGitRepo", "d214")
        /\ IF DOMAIN innerOf(GitRepos, f) = {}
           THEN Goto(g, [f EXCEPT !.pc = "d215"])
           ELSE Return(g, Nil)
        /\ UNCHANGED <<fsys, result, GitRepos, commits>>

\* filesystem.go:215: delete(fs.GitRepos, userID)
Disable215(g) ==
    LET f == calls.frames[g]
        others == IF f.u \in DOMAIN GitRepos
                  THEN detach(calls.frames, GitRepos, g, f.u) ELSE calls.frames
    IN  /\ At(g, "DisableGitRepo", "d215")
        /\ GitRepos' = [u \in DOMAIN GitRepos \ {f.u} |-> GitRepos[u]]
        /\ calls' = [calls EXCEPT !.frames = [others EXCEPT ![g].pc = "done"]]
        /\ UNCHANGED <<fsys, result, commits>>

SyncOpsConc == {"StageCommitAndPush", "Pull"}

\* getGitRepo, filesystem.go:243: userRepos, ok := fs.GitRepos[userID]
Get243(g) ==
    LET f == calls.frames[g]
    IN  /\ calls.frames[g].op \in SyncOpsConc
        /\ At(g, f.op, "g243")
        /\ IF f.u \in DOMAIN GitRepos
           THEN Goto(g, [f EXCEPT !.pc = "g247",
                                  !.ref = [ok |-> TRUE, attached |-> TRUE, map |-> EmptyMap]])
           ELSE Return(g, ErrGitNotConfigured)
        /\ UNCHANGED <<fsys, result, GitRepos, commits>>

\* filesystem.go:247: repo, ok := userRepos[workspaceID]
Get247(g) ==
    LET f == calls.frames[g]
        inner == innerOf(GitRepos, f)
    IN  /\ calls.frames[g].op \in SyncOpsConc
        /\ At(g, f.op, "g247")
        /\ IF f.w \in DOMAIN inner
           THEN Goto(g, [f EXCEPT !.c = inner[f.w],
                                  !.pc = IF f.op = "Pull" THEN "pull" ELSE "commit"])
           ELSE Return(g, ErrGitNotConfigured)
        /\ UNCHANGED <<fsys, result, GitRepos, commits>>

\* StageCommitAndPush, filesystem.go:226: repo.Commit(message)
StageCommit(g, o) ==
    LET f == calls.frames[g]
        r == clientCommit(f.c, o)
    IN  /\ At(g, "StageCommitAndPush", "commit")
        /\ o.fails # "push"
        /\ IF r.err # Nil
           THEN Goto(g, [f EXCEPT !.pc = "done", !.err = r.err, !.steps = r.steps])
           ELSE Goto(g, [f EXCEPT !.pc = "push", !.steps = r.steps])
        /\ UNCHANGED <<fsys, result, GitRepos, commits>>

\* filesystem.go:230: repo.Push() up to its call of c.repo.Push
StagePush(g) ==
    LET f == calls.frames[g]
    IN  /\ At(g, "StageCommitAndPush", "push")
        /\ IF ~f.c.repo
           THEN Return(g, ErrNotInitialized)
           ELSE Goto(g, [f EXCEPT !.pc = "pushing"])
        /\ UNCHANGED <<fsys, result, GitRepos, commits>>

\* c.repo.Push returns
StagePushed(g, o) ==
    LET f == calls.frames[g]
        r == clientPush(f.c, o)
    IN  /\ At(g, "StageCommitAndPush", "pushing")
        /\ Goto(g, [f EXCEPT !.pc = "done", !.err = r.err, !.steps = f.steps \o r.steps])
        /\ UNCHANGED <<fsys, result, GitRepos, commits>>

\* Pull, filesystem.go:239: repo.Pull() up to its call of w.Pull
PullBegin(g, o) ==
    LET f == calls.frames[g]
        r == clientPull(f.c, o)
    IN  /\ At(g, "Pull", "pull")
        /\ o.fails \in {"none", "worktree"}
        /\ IF r.err # Nil
           THEN Goto(g, [f EXCEPT !.pc = "done", !.err = r.err, !.steps = r.steps])
           ELSE Goto(g, [f EXCEPT !.pc = "pulling"])
        /\ UNCHANGED <<fsys, result, GitRepos, commits>>

\* w.Pull returns
PullEnd(g, o) ==
    LET f == calls.frames[g]
        r == clientPull(f.c, o)
    IN  /\ At(g, "Pull", "pulling")
        /\ o.fails # "worktree"
        /\ Goto(g, [f EXCEPT !.pc = "done", !.err = r.err, !.steps = r.steps])
        /\ UNCHANGED <<fsys, result, GitRepos, commits>>

\* the next step of goroutine g
StepOf(g) ==
    \/ Setup204(g)
    \/ Setup205(g)
    \/ Setup207(g)
    \/ \E o \in SetupAnswers : Setup208(g, o)
    \/ SetupEnsured(g)
    \/ Disable212(g)
    \/ Disable213(g)
    \/ Disable214(g)
    \/ Disable215(g)
    \/ Get243(g)
    \/ Get247(g)
    \/ \E o \in StageAnswers : StageCommit(g, o)
    \/ StagePush(g)
    \/ \E o \in StageAnswers : StagePushed(g, o)
    \/ \E o \in PullAnswers : PullBegin(g, o)
    \/ \E o \in PullAnswers : PullEnd(g, o)

\* two requests meet on a registry that earlier requests have set up
InitConc ==
    \E keys \in PreparedKeys :
        /\ fsys = Prepared(keys).fs
        /\ GitRepos = Prepared(keys).GitRepos
        /\ result = NoResult
        /\ commits = EmptyMap
        /\ calls \in {[frames |-> fr, base |-> Prepared(keys).GitRepos] :
                         fr \in [Goroutines -> {Frame(op, k[1], k[2]) :
                                                  op \in ConcOps, k \in GitKeys}]}

NextConc == \E g \in Goroutines : StepOf(g)

\* two concurrent requests of remote sync
SpecConc == InitConc /\ [][NextConc]_vars

\* the handler contexts of the requests that reach RequireWorkspaceAccess
AuthUsers == {1, 2, 3}
HandlerContexts ==
    {NilContext} \cup
    {[isNil |-> FALSE, UserID |-> u, UserRole |-> role, Workspace |-> ws] :
        u \in AuthUsers, role \in Roles,
        ws \in {NilWorkspace} \cup
               {[isNil |-> FALSE, ID |-> w, UserID |-> owner] :
                   w \in Workspaces, owner \in AuthUsers}}

\* a request with the handler context drawn in InitAuth passes the middleware
RequireWorkspaceAccessCall ==
    /\ result.op = "call RequireWorkspaceAccess"
    /\ result' = [result EXCEPT !.op = "RequireWorkspaceAccess",
                                !.response = RequireWorkspaceAccess(result.ctx)]
    /\ UNCHANGED <<fsys, GitRepos, commits, calls>>

InitAuth ==
    /\ fsys = (Slash :> DirEntry)
    /\ result \in {[NoResult EXCEPT !.op = "call RequireWorkspaceAccess", !.ctx = c] :
                      c \in HandlerContexts}
    /\ GitRepos = EmptyMap
    /\ commits = EmptyMap
    /\ calls = EmptyMap

NextAuth == RequireWorkspaceAccessCall

\* RequireWorkspaceAccess alone, on every handler context
SpecAuth == InitAuth /\ [][NextAuth]_vars

\* remote sync of two workspaces, and the deletion of their directories
SpecGit == Init /\ [][NextGit]_vars

\* the workspace whose repository is observed
SyncUser == 1
SyncWorkspace == 1

\* calls on the client of the entry of a workspace, fs.GitRepos[u][w]
EnsureRepoCall(u, w, o) ==
    LET c == GitRepos[u][w]
        r == clientEnsureRepo(c, fsys, o)
    IN  /\ u \in DOMAIN GitRepos
        /\ w \in DOMAIN GitRepos[u]
        /\ GitRepos' = PutRepo(GitRepos, u, w, r.c)
        /\ fsys' = r.fs
        /\ pullAnswer(commits, c.WorkDir, o, r)
        /\ commits' = pulled(cloned(commits, c.WorkDir, r), c.WorkDir, r)
        /\ result' = [NoResult EXCEPT !.op = "EnsureRepo", !.u = u, !.w = w,
                                      !.err = r.err, !.steps = r.steps,
                                      !.handle = c.id, !.cause = r.cause]
        /\ UNCHANGED calls

CommitCall(u, w, o) ==
    LET c == GitRepos[u][w]
        r == clientCommit(c, o)
    IN  /\ u \in DOMAIN GitRepos
        /\ w \in DOMAIN GitRepos[u]
        /\ mayCommit(commits, c.WorkDir)
        /\ commits' = committed(commits, c.WorkDir, r.hash)
        /\ result' = [NoResult EXCEPT !.op = "Commit", !.u = u, !.w = w,
                                      !.err = r.err, !.steps = r.steps,
                                      !.handle = c.id, !.cause = r.cause,
                                      !.hash = r.hash]
        /\ UNCHANGED <<GitRepos, fsys, calls>>

PushCall(u, w, o) ==
    LET c == GitRepos[u][w]
        r == clientPush(c, o)
    IN  /\ u \in DOMAIN GitRepos
        /\ w \in DOMAIN GitRepos[u]
        /\ pushAnswer(commits, c.WorkDir, o, r)
        /\ commits' = pushed(commits, c.WorkDir, r)
        /\ result' = [NoResult EXCEPT !.op = "Push", !.u = u, !.w = w,
                                      !.err = r.err, !.steps = r.steps,
                                      !.handle = c.id, !.cause = r.cause]
        /\ UNCHANGED <<GitRepos, fsys, calls>>

InitSync ==
    /\ fsys = (Slash :> DirEntry)
    /\ result = NoResult
    /\ GitRepos = EmptyMap
    /\ commits = (GetWorkspacePath(SyncUser, SyncWorkspace) :> NoCommits)
    /\ calls = EmptyMap

NextSync ==
    \/ DeleteWorkspaceCall(SyncUser, SyncWorkspace)
    \/ \E o \in SetupAnswers : SetupGitRepoCall(SyncUser, SyncWorkspace, o)
    \/ DisableGitRepoCall(SyncUser, SyncWorkspace)
    \/ \E o \in StageAnswers : StageCommitAndPushCall(SyncUser, SyncWorkspace, o)
    \/ \E o \in PullAnswers : PullCall(SyncUser, SyncWorkspace, o)
    \/ \E o \in SetupAnswers : EnsureRepoCall(SyncUser, SyncWorkspace, o)
    \/ \E o \in StageAnswers : CommitCall(SyncUser, SyncWorkspace, o)
    \/ \E o \in StageAnswers : PushCall(SyncUser, SyncWorkspace, o)

\* remote sync of one workspace whose commits are observed, with the calls on
\* its client
SpecSync == InitSync /\ [][NextSync]_vars

-----------------------------------------------------------------------------
(* Path sandboxing: properties of ValidatePath, checked under SpecPath *)

\* the lexically normalised join of the workspace root with a relative path
Target(u, w, p) == Clean(GetWorkspacePath(u, w) \o Slash \o p)

\* q is the workspace root of (u, w) or lies below it
InWorkspace(q, u, w) ==
    LET root == GetWorkspacePath(u, w)
    IN  q = root \/ IsUnder(q, root)

Validated == result.op = "ValidatePath"

\* C1: ValidatePath fails with the outside-of-workspace error for every path
\* whose normalised join with the workspace root lies outside that root, a
\* sibling directory whose name only extends the root's name included.
C1_OutsideRejected ==
    (Validated /\ ~InWorkspace(Target(result.u, result.w, result.path), result.u, result.w))
        => result.err = ErrOutside

\* C2: for every path that normalises strictly inside the workspace root,
\* ValidatePath succeeds and returns the root joined with the normalised path,
\* a descendant of the root: the root, a separator and at least one element.
C2_InsideAccepted ==
    LET root == GetWorkspacePath(result.u, result.w)
        target == Target(result.u, result.w, result.path)
    IN  (Validated /\ IsUnder(target, root))
            => /\ result.err = Nil
               /\ result.out = target
               /\ SubSeq(result.out, 1, Len(root) + 1) = root \o Slash
               /\ Len(result.out) > Len(root) + 1
               /\ SplitPath(result.out)[Len(SplitPath(result.out))] \notin {<<>>, Dot, DotDot}

\* a path with a ".." element that stays inside workspace 1 was validated
C2_Witness ==
    /\ Validated
    /\ result.w = 1
    /\ result.path = <<"a", "/", ".", ".", "/", "a">>
    /\ result.err = Nil
    /\ result.out = <<"/", "d", "/", "1", "/", "1", "/", "a">>

\* C3: ValidatePath fails with the outside-of-workspace error when the
\* normalised result is the workspace root itself.
C3_RootRejected ==
    (Validated /\ Target(result.u, result.w, result.path) = GetWorkspacePath(result.u, result.w))
        => result.err = ErrOutside

-----------------------------------------------------------------------------
(* File operations: properties checked under Spec *)

FileOps == {"SaveFile", "DeleteFile", "GetFileContent"}

\* the location the path argument of a recorded file request resolves to
Resolved(r) == validated[r.u, r.w, r.path]

\* the proper ancestors of q
Ancestors(q) == {d \in {SubSeq(q, 1, i) : i \in 1..Len(q)} : IsUnder(q, d)}

\* C4: no SaveFile, DeleteFile or GetFileContent of workspace (u, w) creates,
\* changes, removes or reads an entry outside root/u/w (the directories above
\* the root, which MkdirAll may create, are not counted as outside).
C4_TenantIsolation ==
    [][result'.op \in FileOps =>
        LET root == GetWorkspacePath(result'.u, result'.w)
            Outside(q) == q # root /\ ~IsUnder(q, root) /\ ~IsUnder(root, q)
        IN  /\ \A q \in DOMAIN fsys \cup DOMAIN fsys' :
                  Outside(q) => /\ q \in DOMAIN fsys
                                /\ q \in DOMAIN fsys'
                                /\ fsys'[q] = fsys[q]
            /\ result'.err = Nil => ~Outside(Resolved(result').path)]_vars

\* C5: a file request whose path ValidatePath rejects returns that error and
\* leaves the filesystem as it was.
C5_RejectedNotApplied ==
    [][result'.op \in FileOps =>
          LET v == Resolved(result')
          IN  v.err # Nil => /\ result'.err = v.err
                             /\ result'.out = <<>>
                             /\ fsys' = fsys]_vars

\* a SaveFile was rejected while the filesystem holds a file
C5_Witness ==
    /\ result.op = "SaveFile"
    /\ result.path = PathParent
    /\ result.err = ErrOutside
    /\ \E q \in DOMAIN fsys : ~fsys[q].isDir

\* the request recorded in r writes or deletes the file at one of the locations
WritesOrDeletes(r) ==
    IF r.op \in {"SaveFile", "DeleteFile"} THEN {Resolved(r).path}
    ELSE IF r.op = "DeleteUserWorkspace"
         THEN LET root == GetWorkspacePath(r.u, r.w)
              IN  {q \in DOMAIN fsys : q = root \/ IsUnder(q, root)}
         ELSE {}

\* C8: a successful SaveFile(p, b) is read back by GetFileContent(p) as exactly
\* b, and no request other than a write or delete of a file's location (the
\* deletion of its workspace included) changes what that file reads as.
C8_RoundTrip ==
    [][/\ (result'.op = "SaveFile" /\ result'.err = Nil) =>
              GetFileContent(fsys', result'.u, result'.w, result'.path)
                  = [data |-> result'.data, err |-> Nil]
       /\ LET touched == WritesOrDeletes(result')
          IN  \A q \in DOMAIN fsys \ touched :
                  ~fsys[q].isDir => ReadFile(fsys', q) = ReadFile(fsys, q)]_vars

\* the empty content saved below a created directory was read back
C8_Witness ==
    /\ result.op = "GetFileContent"
    /\ result.path = PathAA
    /\ result.err = Nil
    /\ result.out = <<>>

\* C9: a successful SaveFile(p, b) leaves every parent directory of p in
\* place and p holding exactly b, whatever p held before; every other entry is
\* unchanged and nothing but p and its parents is created, which for p strictly
\* inside its workspace are the workspace root, entries below it and the
\* directories above it.
C9_SaveReplaces ==
    [][(result'.op = "SaveFile" /\ result'.err = Nil) =>
          LET q == Resolved(result').path
              up == Ancestors(q)
              root == GetWorkspacePath(result'.u, result'.w)
          IN  /\ q \in DOMAIN fsys'
              /\ IsUnder(q, root) =>
                     \A x \in DOMAIN fsys' \ DOMAIN fsys :
                         InWorkspace(x, result'.u, result'.w) \/ IsUnder(root, x)
              /\ fsys'[q] = FileEntry(result'.data)
              /\ \A d \in up : d \in DOMAIN fsys' /\ fsys'[d].isDir
              /\ \A x \in DOMAIN fsys \ {q} : x \in DOMAIN fsys' /\ fsys'[x] = fsys[x]
              /\ \A x \in DOMAIN fsys' \ DOMAIN fsys : x = q \/ x \in up]_vars

\* the empty content was saved to a/a of workspace 1 while another file holds
\* two bytes
C9_Witness ==
    /\ result.op = "SaveFile"
    /\ result.w = 1
    /\ result.path = PathAA
    /\ result.data = <<>>
    /\ result.err = Nil
    /\ \E q \in DOMAIN fsys : ~fsys[q].isDir /\ fsys[q].data = <<1, 2>>

\* the locations at, below or above which the request recorded in r creates
\* an entry, among the locations S
CreatedAt(r, S) ==
    IF r.op = "SaveFile" /\ Resolved(r).err = Nil
    THEN LET t == Resolved(r).path
         IN  {q \in S : q = t \/ IsUnder(t, q) \/ IsUnder(q, t)}
    ELSE IF r.op = "InitializeUserWorkspace"
         THEN LET root == GetWorkspacePath(r.u, r.w)
              IN  {q \in S : q = root \/ IsUnder(root, q)}
         ELSE {}

\* the locations the file requests can name
Targets ==
    {validated[u, w, p].path : u \in Users, w \in Workspaces, p \in Paths} \ {<<>>}

AbsentRequest(r, fs) ==
    /\ r.op \in {"DeleteFile", "GetFileContent"}
    /\ Resolved(r).err = Nil
    /\ Resolved(r).path \notin DOMAIN fs

\* C11 as claimed: DeleteFile(p) and GetFileContent(p) on a valid path p at
\* which nothing exists fail with the not-found error and leave the
\* filesystem unchanged; stated for p strictly inside a workspace whose root
\* is a directory.
C11_AbsentNotFound ==
    [][(/\ AbsentRequest(result', fsys)
        /\ LET root == GetWorkspacePath(result'.u, result'.w)
           IN  /\ IsUnder(Resolved(result').path, root)
               /\ root \in DOMAIN fsys
               /\ fsys[root].isDir)
          => /\ result'.err = ENOENT
             /\ fsys' = fsys]_vars

\* C11 amended: on a valid path p at which nothing exists both calls fail and
\* leave the filesystem unchanged; the error is not-found unless an entry
\* above p is a regular file, and then it is not-a-directory.
C11_AbsentFails ==
    [][AbsentRequest(result', fsys) =>
          LET q == Resolved(result').path
              fileAbove == \E d \in Ancestors(q) : d \in DOMAIN fsys /\ ~fsys[d].isDir
          IN  /\ result'.err = (IF fileAbove THEN ENOTDIR ELSE ENOENT)
              /\ result'.out = <<>>
              /\ fsys' = fsys]_vars

\* a DeleteFile of a missing a/a failed with not-found in a workspace that
\* holds a file
C11_Witness ==
    /\ result.op = "DeleteFile"
    /\ result.path = PathAA
    /\ result.err = ENOENT
    /\ \E q \in DOMAIN fsys : ~fsys[q].isDir

-----------------------------------------------------------------------------
(* Directory listing: properties checked under SpecTree *)

Listed == result.op = "ListFilesRecursively"

\* the entry a node of the last listing stands for
EntryOf(n) == fsys[GetWorkspacePath(result.u, result.w) \o Slash \o n.Path]

\* directories precede files, and each group is in non-decreasing order of
\* the lower-cased names
OrderedLevel(nodes) ==
    \A i, j \in 1..Len(nodes) :
        i < j => /\ EntryOf(nodes[j]).isDir => EntryOf(nodes[i]).isDir
                 /\ EntryOf(nodes[i]).isDir = EntryOf(nodes[j]).isDir
                        => ~StrLess(ToLower(nodes[j].Name), ToLower(nodes[i].Name))

RECURSIVE OrderedTree(_)
OrderedTree(nodes) ==
    /\ OrderedLevel(nodes)
    /\ \A i \in 1..Len(nodes) : OrderedTree(nodes[i].Children)

\* C6: at every level of the result of ListFilesRecursively the directories
\* precede the files, and the directories and the files are each in
\* non-decreasing order of their lower-cased names.
C6_ListOrdered == (Listed /\ result.err = Nil) => OrderedTree(result.nodes)

\* a listing with a directory and two files whose names differ only by case
C6_Witness ==
    /\ Listed
    /\ result.err = Nil
    /\ Len(result.nodes) = 3
    /\ result.nodes[1].Name = <<"B">> /\ EntryOf(result.nodes[1]).isDir
    /\ result.nodes[2].Name = <<"A">> /\ ~EntryOf(result.nodes[2]).isDir
    /\ result.nodes[3].Name = <<"a">> /\ ~EntryOf(result.nodes[3]).isDir

\* every node of a tree, parents before their children
RECURSIVE Flatten(_)
Flatten(nodes) ==
    IF nodes = <<>> THEN <<>>
    ELSE <<Head(nodes)>> \o Flatten(Head(nodes).Children) \o Flatten(Tail(nodes))

\* the paths, relative to the root, of the entries below it
RelPaths(fs, root) ==
    {SubSeq(q, Len(root) + 2, Len(q)) : q \in {x \in DOMAIN fs : IsUnder(x, root)}}

LastElem(path) == SplitPath(path)[Len(SplitPath(path))]

\* the relative paths of the entries directly in the directory at relative path d
DirectlyIn(rel, d) ==
    {p \in rel : IF d = <<>> THEN p = LastElem(p) ELSE p = d \o Slash \o LastElem(p)}

PathsOf(nodes) == {nodes[i].Path : i \in 1..Len(nodes)}

PathsOfSeq(paths) == {paths[i] : i \in 1..Len(paths)}

\* a directory the last listing had to read cannot be read
ListingBlocked ==
    LET root == GetWorkspacePath(result.u, result.w)
    IN  \/ root \notin DOMAIN fsys
        \/ ~fsys[root].isDir
        \/ result.bad \cap DirsOf(fsys, result.u, result.w) # {}

\* C7: a successful ListFilesRecursively returns exactly one node for every
\* entry below the workspace root, ID and Path the path relative to the root,
\* Name its last element, a directory's children the nodes of the entries in
\* it and a file's none; with a directory at any depth unreadable the call
\* returns an error and no nodes.
C7_ListComplete ==
    Listed =>
        LET rel == RelPaths(fsys, GetWorkspacePath(result.u, result.w))
            flat == Flatten(result.nodes)
        IN  /\ ListingBlocked => result.err # Nil
            /\ result.err # Nil => result.nodes = <<>>
            /\ result.err = Nil =>
                  /\ Len(flat) = Cardinality(rel)
                  /\ PathsOf(flat) = rel
                  /\ PathsOf(result.nodes) = DirectlyIn(rel, <<>>)
                  /\ \A i \in 1..Len(flat) :
                        /\ flat[i].ID = flat[i].Path
                        /\ flat[i].Name = LastElem(flat[i].Path)
                        /\ PathsOf(flat[i].Children) = DirectlyIn(rel, flat[i].Path)
                        /\ Len(flat[i].Children) = Cardinality(DirectlyIn(rel, flat[i].Path))
                        /\ ~EntryOf(flat[i]).isDir => flat[i].Children = <<>>

\* a successful listing of two directories, each with a file in it
C7_Witness ==
    /\ Listed
    /\ result.err = Nil
    /\ Len(result.nodes) = 2
    /\ \A i \in 1..2 : Len(result.nodes[i].Children) = 1

-----------------------------------------------------------------------------
(* Search by name: properties checked under SpecTree *)

Found == result.op = "FindFileByName"

\* the relative paths of the files below the root of the last search whose
\* name equals the searched name ignoring case
Matches ==
    LET root == GetWorkspacePath(result.u, result.w)
    IN  {p \in RelPaths(fsys, root) :
            /\ ~fsys[root \o Slash \o p].isDir
            /\ ToLower(LastElem(p)) = ToLower(result.path)}

\* the root of the last search is missing or one of its directories cannot be
\* read
FindBlocked ==
    LET root == GetWorkspacePath(result.u, result.w)
    IN  \/ root \notin DOMAIN fsys
        \/ result.bad \cap DirsOf(fsys, result.u, result.w) # {}

\* C12: FindFileByName returns the relative path of every file below the
\* workspace root whose name equals the searched name ignoring case, each once
\* and nothing else; with no such file it fails with the not-found error and
\* returns no paths (as it does, with the error of the walk, when the walk
\* fails).
C12_FindComplete ==
    Found =>
        /\ FindBlocked => (result.err # Nil /\ result.out = <<>>)
        /\ (~FindBlocked /\ Matches = {}) =>
               (result.err = ErrFileNotFound /\ result.out = <<>>)
        /\ (~FindBlocked /\ Matches # {}) =>
               /\ result.err = Nil
               /\ PathsOfSeq(result.out) = Matches
               /\ Len(result.out) = Cardinality(Matches)

\* a search for a found both a file named A and a file named a
C12_Witness ==
    /\ Found
    /\ result.path = PathA
    /\ result.err = Nil
    /\ Len(result.out) = 2
    /\ \E i, j \in 1..2 : /\ LastElem(result.out[i]) = <<"A">>
                           /\ LastElem(result.out[j]) = <<"a">>

\* the order of filepath.Walk on paths given as their elements: a directory
\* before its entries, the entries of a directory by their names bytewise
RECURSIVE WalkBefore(_, _)
WalkBefore(p, q) ==
    IF p = <<>> THEN q # <<>>
    ELSE IF q = <<>> THEN FALSE
    ELSE IF Head(p) = Head(q) THEN WalkBefore(Tail(p), Tail(q))
    ELSE StrLess(Head(p), Head(q))

\* C13: the paths FindFileByName returns are in the order in which the walk
\* visits them, not sorted afterwards.
C13_FindInWalkOrder ==
    (Found /\ result.err = Nil) =>
        \A i, j \in 1..Len(result.out) :
            i < j => WalkBefore(SplitPath(result.out[i]), SplitPath(result.out[j]))

\* A/a was found before a: the order of the walk, which no sort by lower-cased
\* name gives
C13_Witness ==
    /\ Found
    /\ result.err = Nil
    /\ result.out = <<PathUpperAA, PathA>>

-----------------------------------------------------------------------------
(* Statistics: properties checked under SpecStats *)

Counted == result.op = "GetFileStats"

\* q is at or below a directory named .git that lies below root
UnderGit(fs, q, root) ==
    \E d \in DOMAIN fs :
        /\ IsUnder(d, root)
        /\ fs[d].isDir
        /\ Base(d) = GitDirName
        /\ (q = d \/ IsUnder(q, d))

\* the files below the root of the last count that are not below a directory
\* named .git
CountedFiles ==
    LET root == GetWorkspacePath(result.u, result.w)
    IN  {q \in DOMAIN fsys : /\ IsUnder(q, root)
                             /\ ~fsys[q].isDir
                             /\ ~UnderGit(fsys, q, root)}

RECURSIVE SumSizes(_)
SumSizes(S) ==
    IF S = {} THEN 0
    ELSE LET q == CHOOSE x \in S : TRUE
         IN  Len(fsys[q].data) + SumSizes(S \ {q})

\* C14: GetFileStats returns as TotalFiles the number and as TotalSize the
\* summed size of the files below the workspace root that are not below a
\* directory named .git; a directory named .git is not read, so that the
\* count succeeds whenever every other directory can be read.
C14_StatsSkipGit ==
    Counted =>
        LET root == GetWorkspacePath(result.u, result.w)
            read == {d \in DirsOf(fsys, result.u, result.w) : ~UnderGit(fsys, d, root)}
        IN  /\ (root \in DOMAIN fsys /\ result.bad \cap read = {}) => result.err = Nil
            /\ result.err = Nil =>
                   /\ result.stats.TotalFiles = Cardinality(CountedFiles)
                   /\ result.stats.TotalSize = SumSizes(CountedFiles)

\* a count of one file of two bytes in a workspace that holds another file
\* below .git, whose directory cannot be read
C14_Witness ==
    /\ Counted
    /\ result.err = Nil
    /\ result.stats = [TotalFiles |-> 1, TotalSize |-> 2]
    /\ NumFiles(fsys) = 2
    /\ \E d \in result.bad : Base(d) = GitDirName

-----------------------------------------------------------------------------
(* Remote sync: properties checked under SpecGit *)

Registered(repos, u, w) == u \in DOMAIN repos /\ w \in DOMAIN repos[u]

\* the workspaces that have a client in the registry
KeysOf(repos) == UNION {{<<u, w>> : w \in DOMAIN repos[u]} : u \in DOMAIN repos}

SyncOps == {"Pull", "StageCommitAndPush"}

\* the client of the entry of k in repos
ClientOf(repos, k) == repos[k[1]][k[2]]

\* C15: when SetupGitRepo fails because EnsureRepo returns an error, that error
\* is returned and the registry retains no client for the workspace; stated
\* for a workspace that had none before.
C15_FailedSetupNotRetained ==
    [][(/\ result'.op = "SetupGitRepo"
        /\ result'.err # Nil
        /\ ~Registered(GitRepos, result'.u, result'.w))
          => ~Registered(GitRepos', result'.u, result'.w)]_vars

\* C16: DisableGitRepo(u, w) removes the entry of (u, w) if there is one and
\* reports no error; without an entry, and so a second time, it changes
\* nothing; the entries of every other workspace and the filesystem are left
\* as they were.
C16_DisableIdempotent ==
    [][result'.op = "DisableGitRepo" =>
          LET u == result'.u
              w == result'.w
          IN  /\ ~Registered(GitRepos', u, w)
              /\ result'.err = Nil
              /\ ~Registered(GitRepos, u, w) => GitRepos' = GitRepos
              /\ DisableGitRepo(GitRepos', u, w) = GitRepos'
              /\ KeysOf(GitRepos') = KeysOf(GitRepos) \ {<<u, w>>}
              /\ \A k \in KeysOf(GitRepos') : GitRepos'[k[1]][k[2]] = GitRepos[k[1]][k[2]]
              /\ \A x \in DOMAIN GitRepos' : DOMAIN GitRepos'[x] # {}
              /\ fsys' = fsys]_vars

\* workspace 1 was disabled while workspace 12 keeps its client and the clone
\* of workspace 1 is still on disk
C16_Witness ==
    /\ result.op = "DisableGitRepo"
    /\ result.w = 1
    /\ Registered(GitRepos, 1, 12)
    /\ ~Registered(GitRepos, 1, 1)
    /\ Join(<<GetWorkspacePath(1, 1), GitDirName>>) \in DOMAIN fsys

\* the errors of the git client
ClientErrors ==
    {ErrNotInitialized, ErrClone, ErrOpen, ErrWorktree, ErrPull, ErrAdd, ErrCommit, ErrPush}

\* C17: Pull and StageCommitAndPush for a workspace without a client in the
\* registry fail with the git-not-configured error and stage, commit, pull and
\* push nothing; the error is none of the client's errors and is returned in
\* no other case.
C17_NotConfigured ==
    result.op \in SyncOps =>
        /\ ErrGitNotConfigured \notin ClientErrors
        /\ ~Registered(GitRepos, result.u, result.w) =>
               /\ result.err = ErrGitNotConfigured
               /\ result.steps = <<>>
               /\ result.handle = 0
        /\ Registered(GitRepos, result.u, result.w) =>
               /\ result.err \in ClientErrors \cup {Nil}
               /\ result.handle = GitRepos[result.u][result.w].id

\* StageCommitAndPush of workspace 12 was refused while workspace 1 has a
\* client with an open repository
C17_Witness ==
    /\ result.op = "StageCommitAndPush"
    /\ result.w = 12
    /\ result.err = ErrGitNotConfigured
    /\ Registered(GitRepos, 1, 1)
    /\ GitRepos[1][1].repo

\* no two workspaces share a client, and the client of a workspace works in
\* the directory of that workspace

OneHandlePerWorkspace ==
    \A k1, k2 \in KeysOf(GitRepos) :
        /\ ClientOf(GitRepos, k1).WorkDir = WorkDirOf[k1]
        /\ ClientOf(GitRepos, k1).id = ClientOf(GitRepos, k2).id => k1 = k2

\* C18: at most one client is live per workspace: SetupGitRepo of a workspace
\* puts a newly allocated client into its entry, in place of the one it had,
\* and every later sync operation acts through the client of the entry.
C18_OneLiveHandle ==
    [][/\ OneHandlePerWorkspace'
       /\ result'.op = "SetupGitRepo" =>
              /\ Registered(GitRepos', result'.u, result'.w)
              /\ GitRepos'[result'.u][result'.w].id = result'.handle
              /\ result'.handle \notin IdsOf(GitRepos)
       /\ (result'.op \in SyncOps /\ Registered(GitRepos, result'.u, result'.w)) =>
              result'.handle = GitRepos[result'.u][result'.w].id]_vars

\* a sync operation of workspace 1 acted through its second client, the only
\* one the registry holds
C18_Witness ==
    /\ result.op = "Pull"
    /\ result.w = 1
    /\ result.handle = 2
    /\ IdsOf(GitRepos) = {2}

\* the request before was a successful SetupGitRepo of the workspace of the
\* request recorded in r
FollowsSetup(r) ==
    /\ result.op = "SetupGitRepo"
    /\ result.err = Nil
    /\ result.u = r.u
    /\ result.w = r.w

\* C19: after DisableGitRepo(u, w) or DeleteUserWorkspace(u, w) the registry
\* holds no client for (u, w); stated for a workspace whose SetupGitRepo has
\* just succeeded.
C19_DestroyedWithWorkspace ==
    [][(/\ result'.op \in {"DisableGitRepo", "DeleteUserWorkspace"}
        /\ FollowsSetup(result'))
          => ~Registered(GitRepos', result'.u, result'.w)]_vars

-----------------------------------------------------------------------------
(* The git client: properties checked under SpecSync *)

\* the working directory of the client that ran the request recorded in r has
\* no local clone in fs
NoClone(fs, r) ==
    LookupErr(fs, Join(<<GetWorkspacePath(r.u, r.w), GitDirName>>)) = ENOENT

\* the number of steps of the given name in a sequence of steps
CountOf(steps, name) == Cardinality({i \in 1..Len(steps) : steps[i] = name})

\* C21: an EnsureRepo on a client whose working directory has no local clone
\* performs exactly one clone and no pull; when it succeeded, the EnsureRepo
\* that follows it on the same client opens the clone, clones nothing, and
\* performs exactly one pull unless opening the clone or its worktree fails.
C21_EnsureRepoIdempotent ==
    [][result'.op = "EnsureRepo" =>
          /\ NoClone(fsys, result') => result'.steps = <<"clone">>
          /\ (/\ result.op \in {"EnsureRepo", "SetupGitRepo"}
              /\ result.handle = result'.handle
              /\ result.steps = <<"clone">>
              /\ result.err = Nil) =>
                 /\ CountOf(result'.steps, "clone") = 0
                 /\ result'.steps[1] = "open"
                 /\ CountOf(result'.steps, "pull") <= 1
                 /\ result'.err \notin {ErrOpen, ErrWorktree}
                        => result'.steps = <<"open", "pull">>]_vars

\* an EnsureRepo opened the clone and pulled, on a client of a repository
\* that was cloned once
C21_Witness ==
    /\ result.op = "EnsureRepo"
    /\ result.steps = <<"open", "pull">>
    /\ result.err = Nil
    /\ GitRepos[result.u][result.w].id = 1

\* the request recorded in r is a Pull or a Push that reached the remote
Transferred(r) ==
    \/ r.op = "Pull" /\ r.steps = <<"pull">>
    \/ r.op = "Push" /\ r.steps = <<"push">>

\* C22: a Pull or Push to which the remote answers that there is nothing to
\* update succeeds; it succeeds only on that answer or on a real transfer, and
\* every other error of the remote is returned, wrapped in the error of the
\* operation.
C22_UpToDateIsSuccess ==
    Transferred(result) =>
        /\ result.cause = NoErrAlreadyUpToDate => result.err = Nil
        /\ result.err = Nil <=> result.cause \in {Nil, NoErrAlreadyUpToDate}
        /\ result.cause = ErrRemote =>
               result.err = (IF result.op = "Pull" THEN ErrPull ELSE ErrPush)
        /\ result.cause \in {Nil, NoErrAlreadyUpToDate, ErrRemote}

\* a Push was answered that the remote is up to date, after a commit reached
\* the remote
C22_Witness ==
    /\ result.op = "Push"
    /\ result.cause = NoErrAlreadyUpToDate
    /\ result.err = Nil
    /\ \E d \in DOMAIN commits : commits[d].remote # {}

ClientOps == {"Commit", "Pull", "Push"}

\* C23: Commit, Pull and Push on a client without an open repository fail
\* with the not-initialized error before any step: nothing is staged,
\* committed or transferred, and Commit returns the zero hash, as it does with
\* every error.
C23_UninitializedFails ==
    [][result'.op \in ClientOps =>
          /\ (/\ Registered(GitRepos, result'.u, result'.w)
              /\ ~GitRepos[result'.u][result'.w].repo) =>
                 /\ result'.err = ErrNotInitialized
                 /\ result'.steps = <<>>
                 /\ result'.cause = Nil
                 /\ result'.hash = ZeroHash
                 /\ UNCHANGED <<fsys, GitRepos, commits>>
          /\ result'.err # Nil => result'.hash = ZeroHash
          /\ (result'.op = "Commit" /\ result'.err = Nil) => result'.hash # ZeroHash]_vars

\* a Commit on a client without an open repository was refused
C23_Witness ==
    /\ result.op = "Commit"
    /\ result.err = ErrNotInitialized
    /\ ~GitRepos[result.u][result.w].repo

\* the errors Commit returns
CommitErrors == {ErrNotInitialized, ErrWorktree, ErrAdd, ErrCommit}

\* the observed repository of the request recorded in r
Observed(r) == GetWorkspacePath(r.u, r.w)

\* C24: StageCommitAndPush pushes only after the commit of the same call
\* succeeded: a push step comes last, after the add and commit steps and a
\* new commit; when the commit fails the call returns the commit's error and
\* performs no push.
C24_PushAfterCommit ==
    [][result'.op = "StageCommitAndPush" =>
          /\ CountOf(result'.steps, "push") > 0 =>
                 /\ result'.steps = <<"add", "commit", "push">>
                 /\ result'.err \in {Nil, ErrPush}
                 /\ commits'[Observed(result')].next = commits[Observed(result')].next + 1
          /\ result'.err \in CommitErrors =>
                 /\ CountOf(result'.steps, "push") = 0
                 /\ result'.cause # ErrRemote
                 /\ commits' = commits
          /\ result'.err \in CommitErrors \cup {Nil, ErrPush, ErrGitNotConfigured}]_vars

\* a StageCommitAndPush whose commit failed after staging
C24_Witness ==
    /\ result.op = "StageCommitAndPush"
    /\ result.err = ErrCommit
    /\ result.steps = <<"add", "commit">>

\* the request recorded in r is a StageCommitAndPush whose push failed
PushFailed(r) == r.op = "StageCommitAndPush" /\ r.err = ErrPush

\* the local clone of the observed repository has every commit of the remote
Descends(h, workDir) == h[workDir].remote \subseteq h[workDir].local

\* a Push on the client of the observed workspace that succeeds
PushAlone ==
    /\ \E o \in StageAnswers : PushCall(SyncUser, SyncWorkspace, o)
    /\ result'.err = Nil

\* C25: when the push of StageCommitAndPush fails after its commit succeeded,
\* the call reports the push error, the new commit stays in the local clone
\* and is not at the remote, and the client stays in the registry with its
\* open repository; while the local clone has every commit of the remote, a
\* Push alone on that client is possible right after, and when it succeeds
\* the remote has the commit.
C25_CommitKeptOnPushFailure ==
    [][/\ PushFailed(result') =>
              /\ result'.steps = <<"add", "commit", "push">>
              /\ result'.cause = ErrRemote
              /\ commits'[Observed(result')].local =
                     commits[Observed(result')].local \cup {commits[Observed(result')].next}
              /\ commits[Observed(result')].next \notin commits'[Observed(result')].remote
              /\ commits'[Observed(result')].remote = commits[Observed(result')].remote
              /\ GitRepos' = GitRepos
              /\ Registered(GitRepos', result'.u, result'.w)
              /\ GitRepos'[result'.u][result'.w].repo
       /\ (PushFailed(result) /\ Descends(commits, Observed(result))) =>
              ENABLED PushAlone
       /\ (PushFailed(result) /\ result'.op = "Push" /\ result'.err = Nil) =>
              /\ result'.steps = <<"push">>
              /\ result'.cause = Nil
              /\ commits'[Observed(result)].remote = commits[Observed(result)].local
              /\ commits'[Observed(result)].local = commits[Observed(result)].local]_vars

\* a Push alone moved a commit to the remote that a call before had left in
\* the local clone
C25_Witness ==
    /\ result.op = "Push"
    /\ result.err = Nil
    /\ result.cause = Nil
    /\ result.steps = <<"push">>
    /\ commits[Observed(result)].remote = commits[Observed(result)].local
    /\ commits[Observed(result)].local # {}

-----------------------------------------------------------------------------
(* The workspace root: property checked under Spec *)

\* the root directory of workspace (u, w) exists in fs
RootExists(fs, u, w) ==
    /\ GetWorkspacePath(u, w) \in DOMAIN fs
    /\ fs[GetWorkspacePath(u, w)].isDir

\* the requests that are not to remove a workspace root
KeepingOps == {"GetFileContent", "SaveFile", "DeleteFile", "ListFilesRecursively"}

\* C29: a GetFileContent, SaveFile, DeleteFile or ListFilesRecursively of a
\* workspace whose root directory exists leaves the root directory in place,
\* whatever its path argument.
C29_RootKept ==
    [][(/\ result'.op \in KeepingOps
        /\ RootExists(fsys, result'.u, result'.w))
          => RootExists(fsys', result'.u, result'.w)]_vars

-----------------------------------------------------------------------------
(* Workspace access control: property checked under SpecAuth *)

\* the user of the handler context owns its workspace or is an administrator
MayAccess(ctx) == ctx.Workspace.UserID = ctx.UserID \/ ctx.UserRole = RoleAdmin

\* C30: a request with a workspace reaches the next handler exactly when its
\* user owns the workspace or has the admin role, and is answered 404
\* otherwise; without a handler context the answer is 500 and the next
\* handler is not called; without a workspace the request is passed on
\* unchanged.
C30_WorkspaceAccess ==
    result.op = "RequireWorkspaceAccess" =>
        LET ctx == result.ctx
            res == result.response
        IN  /\ ctx.isNil =>
                   /\ res.status = StatusInternalServerError
                   /\ ~res.next
            /\ (~ctx.isNil /\ ctx.Workspace.isNil) =>
                   /\ res.next
                   /\ res.passed = ctx
                   /\ res.status = 0
            /\ (~ctx.isNil /\ ~ctx.Workspace.isNil) =>
                   /\ res.next <=> MayAccess(ctx)
                   /\ res.next => (res.passed = ctx /\ res.status = 0)
                   /\ ~res.next => res.status = StatusNotFound

\* an administrator reached a workspace of another user
C30_Witness ==
    /\ result.op = "RequireWorkspaceAccess"
    /\ ~result.ctx.isNil
    /\ ~result.ctx.Workspace.isNil
    /\ result.ctx.UserRole = RoleAdmin
    /\ result.ctx.Workspace.UserID # result.ctx.UserID
    /\ result.response.next

-----------------------------------------------------------------------------
(* Concurrent requests of remote sync *)

\* the lines at which a request is inside a sync operation of its handle
SyncPcs == {"commit", "push", "pushing", "pull", "pulling"}

\* the request has taken a step of its sync operation and has not returned
Underway(f) == f.pc \in {"push", "pushing", "pulling"}

SameWorkspace(f, h) == f.u = h.u /\ f.w = h.w

\* goroutine g takes a step of its commit, push or pull
SyncStepOf(g) ==
    /\ calls.frames[g].pc \in SyncPcs
    /\ calls'.frames[g] # calls.frames[g]

\* C26: sync operations on one handle are mutually exclusive; no step of the
\* commit, push or pull of one request is taken while the sync operation of
\* another request on the same (userID, workspaceID) has begun and has not
\* returned.
C26_SyncMutuallyExclusive ==
    [][\A g \in Goroutines : \A h \in Goroutines \ {g} :
          (SyncStepOf(g) /\ SameWorkspace(calls.frames[g], calls.frames[h]))
              => ~Underway(calls.frames[h])]_vars

AllDone == \A g \in Goroutines : calls.frames[g].pc = "done"

Panics == {ErrPanicNilMap, ErrPanicNilPointer}

\* which workspaces of which users the registry holds a handle for
Shape(repos) == [u \in DOMAIN repos |-> DOMAIN repos[u]]

\* the registry after the request of a frame ran alone
After(repos, f) ==
    IF f.op = "SetupGitRepo"
    THEN SetupGitRepo(repos, fsys, f.u, f.w, Answer("none", FALSE, TRUE, TRUE)).GitRepos
    ELSE IF f.op = "DisableGitRepo"
    THEN DisableGitRepo(repos, f.u, f.w)
    ELSE repos

\* the shapes of the registry after the two requests ran one after the other
SequentialShapes ==
    {Shape(After(After(calls.base, calls.frames[g]), calls.frames[h])) :
        <<g, h>> \in {<<1, 2>>, <<2, 1>>}}

\* C27: the registry map is concurrency-safe; when two concurrent requests
\* have returned, neither has panicked on the map and the registry holds the
\* handles that some sequential order of the two requests leaves.
C27_RegistryLinearizable ==
    AllDone =>
        /\ \A g \in Goroutines : calls.frames[g].err \notin Panics
        /\ Shape(GitRepos) \in SequentialShapes

\* the request waits for the remote
Blocked(f) == f.pc \in {"ensure", "pushing", "pulling"}

\* C28: no registry-wide exclusion is held during a clone, pull, commit or
\* push; while a request of one workspace waits for the remote, a request for
\* a different workspace that has not returned can take its next step, and
\* waits for no lock.
C28_NoRegistryWideExclusion ==
    \A g \in Goroutines : \A h \in Goroutines \ {g} :
        (/\ Blocked(calls.frames[g])
         /\ ~SameWorkspace(calls.frames[g], calls.frames[h])
         /\ calls.frames[h].pc # "done")
            => /\ ENABLED StepOf(h)
               /\ waitsFor(calls, h) = {}

\* a StageCommitAndPush of one workspace has returned without error while the
\* EnsureRepo of another workspace still waits for the remote
C28_Witness ==
    \E g \in Goroutines : \E h \in Goroutines \ {g} :
        /\ calls.frames[g].op = "SetupGitRepo"
        /\ calls.frames[g].pc = "ensure"
        /\ ~SameWorkspace(calls.frames[g], calls.frames[h])
        /\ calls.frames[h].op = "StageCommitAndPush"
        /\ calls.frames[h].pc = "done"
        /\ calls.frames[h].err = Nil
        /\ "push" \in {calls.frames[h].steps[i] : i \in DOMAIN calls.frames[h].steps}

====
